---- MODULE Spec2Model ----
(***************************************************************************)
(* A model of claude-swarm's orchestration core: the workflow validator    *)
(* (internal/workflow), the session state store (internal/state), and the  *)
(* orchestrator main loop with its file monitor (internal/orchestrator),   *)
(* Persistence (Save, Load) and the MessageHandler of the file protocol.   *)
(*                                                                         *)
(* The specifications share the variables:                                 *)
(*   SpecValidate  Parser.Validate applied to bounded workflows            *)
(*   Spec          the SwarmState operations called in any order           *)
(*   SpecEngine    Orchestrator.Run with workers, monitor, server and Stop *)
(*   SpecPersist   Persistence.Save step by step, mutators, kill, Load     *)
(*   SpecRace      a SwarmState mutator against the interface's reads      *)
(*   SpecEdit      edit-file requests handled by the MessageHandler        *)
(*   SpecExec      workers' requests, the monitor and HandleMessage        *)
(*   SpecRequest   SpecExec with the wait loops of the workers' commands   *)
(*   SpecInterp    InterpolatePrompt applied to bounded prompts            *)
(*   SpecMonitor   FileMonitor.watch step by step, its queues and Stop     *)
(*   SpecMonitorLive  SpecMonitor with the goroutines' fairness            *)
(*   SpecClassify  handleCreate on the paths fsnotify reports              *)
(*   SpecContext   the context file of a task spawned after its            *)
(*                 dependencies                                            *)
(*   SpecQuestion  workers' questions, the network adapter's questions     *)
(*   SpecLoop      the four cases of Run's select for a one-task workflow  *)
(*   SpecSpawn     the engine with spawns failing in the context write     *)
(*   SpecProgress  the engine with the monitor working on full paths       *)
(*   SpecProgressLive  SpecProgress with fairness                          *)
(***************************************************************************)
EXTENDS Integers, Sequences, FiniteSets, TLC

VARIABLES
    wf,             \* *workflow.Workflow: [Name, Tasks], Tasks a sequence of [ID, Prompt, DependsOn]
    vpc,            \* Validate: "input" before the call, "validated" after it
    result,         \* Validate: the returned error ([kind |-> "ok"] for nil)
    Agents,         \* SwarmState.Agents: task id -> AgentState
    CompletedTasks, \* SwarmState.CompletedTasks
    Events,         \* SwarmState.Events: the event log, <<type, agent id>>
    CompletedAt,    \* SwarmState.CompletedAt: FALSE for nil, TRUE once set
    outputsCache,   \* SwarmState.outputsCache: task id -> output
    ret,            \* the last Store call and what it returned
    pc,             \* Orchestrator.Run: where the coordinating goroutine is
    doneClosed,     \* Orchestrator.done and FileMonitor.done are closed (Stop was called)
    fsEvents,       \* fsnotify watcher.Events: creations not yet taken by FileMonitor.watch
    events,         \* FileMonitor.events: the classified events not yet received by Run
    files,          \* per task id, the files its worker has written in its directory
    stateFile,      \* state.json: the file Persistence.Save renames its data into
    handled,        \* number of events Run has received from FileMonitor.events
    serverCalls,    \* number of /api/complete requests the network adapter has served
    mu,             \* SwarmState.mu: the exclusive holder ("" for none) and the shared holders
    save,           \* Persistence.Save: where the call is, and the data it marshalled
    tmpFile,        \* state.json.tmp
    crashes,        \* times the process was killed and started again on the same directory
    loaded,         \* Persistence.Load: <<>> before the call, else the file it read and what it returned
    mut,            \* the goroutine inside a SwarmState mutator: its call and the words written so far
    rd,             \* the interface's goroutine: the AgentState it holds and the words read so far
    tree,           \* the project files the Operation Executor works on: directories and path -> content
    responses,      \* the Responses HandleMessage has made, in order, each with its file and message
    requests,       \* the workers' request commands: message id -> where the command is
    watch,          \* FileMonitor.watch: where the goroutine is, and the value it is sending
    monErrors,      \* FileMonitor.errors: the watcher errors not yet received by Run
    swarmDir        \* FileMonitor.swarmDir, Orchestrator.swarmDir: the session directory

storeVars  == <<Agents, CompletedTasks, Events, CompletedAt, outputsCache>>
engineVars == <<pc, doneClosed, fsEvents, events, files, stateFile, handled, serverCalls>>
concVars   == <<mu, save, tmpFile, crashes, loaded, mut, rd>>
execVars   == <<tree, responses, requests>>
monVars    == <<watch, monErrors, swarmDir>>
vars == <<wf, vpc, result, Agents, CompletedTasks, Events, CompletedAt, outputsCache,
          ret, pc, doneClosed, fsEvents, events, files, stateFile, handled, serverCalls,
          mu, save, tmpFile, crashes, loaded, mut, rd, tree, responses, requests,
          watch, monErrors, swarmDir>>

-----------------------------------------------------------------------------
(* Bounds of the model *)

\* tasks per workflow in the graph inputs of Validate
MaxTasks == 3
\* tasks per workflow in the malformed inputs of Validate
MaxDefectTasks == 2

\* task ids, in the order the graph inputs declare them
IdSeq == <<"A", "B", "C", "D", "E">>

FirstIds(n) == {IdSeq[i] : i \in 1..n}

Range(s) == {s[i] : i \in 1..Len(s)}

IndexOf(id) == CHOOSE i \in 1..Len(IdSeq) : IdSeq[i] = id

\* the ids of S as a list, in the order of IdSeq or (rev) in the opposite order
RECURSIVE SeqOf(_, _)
SeqOf(S, rev) ==
    IF S = {} THEN <<>>
    ELSE LET x == CHOOSE y \in S : \A z \in S :
                      IF rev THEN IndexOf(z) <= IndexOf(y) ELSE IndexOf(y) <= IndexOf(z)
         IN  <<x>> \o SeqOf(S \ {x}, rev)

\* orders in which a Go map over the ids S may be ranged
Orders(S) == {s \in [1..Cardinality(S) -> S] : Range(s) = S}

-----------------------------------------------------------------------------
(* internal/workflow: Parser.Validate *)

NoError == [kind |-> "ok", task |-> "", dep |-> "", cycle |-> <<>>]
Err(kind, task, dep) == [kind |-> kind, task |-> task, dep |-> dep, cycle |-> <<>>]
CycleErr(cycle) == [kind |-> "circular", task |-> "", dep |-> "", cycle |-> cycle]

\* taskExistsInList: some task of the list has this id
taskExistsInListNever(taskID, tasks) == FALSE
taskExistsInList(taskID, tasks) ==
    \E i \in 1..Len(tasks) : tasks[i].ID = taskID

\* the loop over task.DependsOn inside Validate: the first dependency that is
\* neither in taskIDs nor anywhere in the list
RECURSIVE ValidateDeps(_, _, _, _)
ValidateDeps(task, j, taskIDs, tasks) ==
    IF j > Len(task.DependsOn) THEN NoError
    ELSE LET depID == task.DependsOn[j]
         IN  IF depID \notin taskIDs /\ ~taskExistsInList(depID, tasks)
             THEN Err("dependency_not_found", task.ID, depID)
             ELSE ValidateDeps(task, j + 1, taskIDs, tasks)

\* the loop over workflow.Tasks inside Validate, from task i on, taskIDs being
\* the ids seen so far
RECURSIVE ValidateTasks(_, _, _)
ValidateTasks(tasks, i, taskIDs) ==
    IF i > Len(tasks) THEN NoError
    ELSE LET task == tasks[i]
         IN  IF task.ID = "" THEN Err("id_required", "", "")
             ELSE IF task.ID \in taskIDs THEN Err("duplicate_id", task.ID, "")
             ELSE IF task.Prompt = "" THEN Err("prompt_required", task.ID, "")
             ELSE LET seen == taskIDs \cup {task.ID}
                      d == ValidateDeps(task, 1, seen, tasks)
                  IN  IF d.kind # "ok" THEN d
                      ELSE ValidateTasks(tasks, i + 1, seen)

\* the deps map of checkCircularDependencies: deps[task.ID] = task.DependsOn,
\* a later task overwriting an earlier one of the same id, a missing key
\* reading as the empty list
DepsMap(tasks) ==
    [id \in {tasks[i].ID : i \in 1..Len(tasks)} |->
        LET last == CHOOSE i \in 1..Len(tasks) :
                        /\ tasks[i].ID = id
                        /\ \A k \in 1..Len(tasks) : tasks[k].ID = id => k <= i
        IN  tasks[last].DependsOn]

DepsAt(deps, id) == IF id \in DOMAIN deps THEN deps[id] ELSE <<>>

\* visited[taskID] = false on leaving a node
LeaveNodeKeepMark(visited, taskID) == visited
LeaveNode(visited, taskID) == visited \ {taskID}

\* hasCircularDep: the DFS. visited is the set of ids whose map entry is true;
\* the map is shared by the whole traversal, so it is threaded through the
\* calls. Returns the cycle (empty for nil) and the map as the call leaves it.
RECURSIVE hasCircularDep(_, _, _, _)
RECURSIVE hasCircularDepLoop(_, _, _, _, _)
hasCircularDep(taskID, deps, visited, path) ==
    IF taskID \in visited
    THEN [cycle |-> Append(path, taskID), visited |-> visited]
    ELSE LET r == hasCircularDepLoop(taskID, 1, deps, visited \cup {taskID},
                                     Append(path, taskID))
         IN  IF r.cycle # <<>> THEN r
             ELSE [cycle |-> <<>>, visited |-> LeaveNode(r.visited, taskID)]

\* the loop over deps[taskID] inside hasCircularDep
hasCircularDepLoop(taskID, j, deps, visited, path) ==
    IF j > Len(DepsAt(deps, taskID)) THEN [cycle |-> <<>>, visited |-> visited]
    ELSE LET r == hasCircularDep(DepsAt(deps, taskID)[j], deps, visited, path)
         IN  IF r.cycle # <<>> THEN r
             ELSE hasCircularDepLoop(taskID, j + 1, deps, r.visited, path)

\* checkCircularDependencies: a DFS from every key of deps, in the order the
\* map is ranged, each with a fresh visited map and an empty path
RECURSIVE checkCircularFrom(_, _, _)
checkCircularFrom(order, k, deps) ==
    IF k > Len(order) THEN NoError
    ELSE LET r == hasCircularDep(order[k], deps, {}, <<>>)
         IN  IF r.cycle # <<>> THEN CycleErr(r.cycle)
             ELSE checkCircularFrom(order, k + 1, deps)

checkCircularDependencies(workflow, order) ==
    checkCircularFrom(order, 1, DepsMap(workflow.Tasks))

\* Parser.Validate; order is the order in which the deps map is ranged
Validate(workflow, order) ==
    IF workflow.Name = "" THEN Err("name_required", "", "")
    ELSE IF Len(workflow.Tasks) = 0 THEN Err("no_tasks", "", "")
    ELSE LET t == ValidateTasks(workflow.Tasks, 1, {})
         IN  IF t.kind # "ok" THEN t
             ELSE checkCircularDependencies(workflow, order)

TaskIDsOf(workflow) == {workflow.Tasks[i].ID : i \in 1..Len(workflow.Tasks)}

-----------------------------------------------------------------------------
(* The workflows Validate is applied to *)

NewTask(id, prompt, dependsOn) == [ID |-> id, Prompt |-> prompt, DependsOn |-> dependsOn]

\* a workflow with a well-formed name, ids and prompts: task i depends on the
\* ids d[i], listed in ascending or (rev) in descending order
GraphWorkflow(n, d, rev) ==
    [Name |-> "wf",
     Tasks |-> [i \in 1..n |-> NewTask(IdSeq[i], "p", SeqOf(d[i], rev))]]

\* the fields a task of a malformed workflow is drawn from
DefectTasks ==
    [ID : {"", "A", "B"}, Prompt : {"", "p"},
     DependsOn : {<<>>, <<"A">>, <<"B">>, <<"C">>}]

-----------------------------------------------------------------------------
(* Properties of Parser.Validate, checked under SpecValidate *)

\* non-empty name, at least one task, unique non-empty ids, non-empty prompts
WellFormed(workflow) ==
    /\ workflow.Name # ""
    /\ Len(workflow.Tasks) >= 1
    /\ \A i \in 1..Len(workflow.Tasks) :
          /\ workflow.Tasks[i].ID # ""
          /\ workflow.Tasks[i].Prompt # ""
          /\ \A k \in 1..Len(workflow.Tasks) :
                workflow.Tasks[k].ID = workflow.Tasks[i].ID => k = i

\* every dependency id names a declared task
DepsDeclared(workflow) ==
    \A i \in 1..Len(workflow.Tasks) :
        Range(workflow.Tasks[i].DependsOn) \subseteq TaskIDsOf(workflow)

\* the dependency relation: <<task, dependency>>
DependsOnRel(workflow) ==
    UNION {{<<workflow.Tasks[i].ID, d>> : d \in Range(workflow.Tasks[i].DependsOn)} :
           i \in 1..Len(workflow.Tasks)}

\* the ids reached from S along 1..n edges of E
RECURSIVE ReachedIn(_, _, _)
ReachedIn(S, E, n) ==
    IF n = 0 THEN {}
    ELSE LET next == {e[2] : e \in {f \in E : f[1] \in S}}
         IN  next \cup ReachedIn(next, E, n - 1)

Acyclic(workflow) ==
    \A id \in TaskIDsOf(workflow) :
        id \notin ReachedIn({id}, DependsOnRel(workflow), Len(workflow.Tasks))

\* C2: a workflow with a non-empty name, at least one task, unique non-empty
\* ids and non-empty prompts is accepted by Validate if and only if every
\* dependency id is declared and the dependency relation is acyclic, whatever
\* order the traversal visits the tasks in.
C2_ValidateIffDeclaredAcyclic ==
    (vpc = "validated" /\ WellFormed(wf)) =>
        (result.kind = "ok" <=> (DepsDeclared(wf) /\ Acyclic(wf)))

\* the diamond of the specification (A; B after A; C after B and A) has been
\* validated and accepted
C2_Witness ==
    /\ vpc = "validated"
    /\ result.kind = "ok"
    /\ wf = GraphWorkflow(3, <<{}, {"A"}, {"A", "B"}>>, TRUE)

\* the first defect of task i, in the order Validate checks them
TaskDefect(workflow, i) ==
    LET task == workflow.Tasks[i]
        dangling == {j \in 1..Len(task.DependsOn) :
                        task.DependsOn[j] \notin TaskIDsOf(workflow)}
    IN  IF task.ID = "" THEN "id_required"
        ELSE IF \E k \in 1..(i - 1) : workflow.Tasks[k].ID = task.ID THEN "duplicate_id"
        ELSE IF task.Prompt = "" THEN "prompt_required"
        ELSE IF dangling # {} THEN "dependency_not_found"
        ELSE "ok"

\* the first violation of the workflow, "ok" if it has none of those of C3
FirstDefect(workflow) ==
    IF workflow.Name = "" THEN "name_required"
    ELSE IF Len(workflow.Tasks) = 0 THEN "no_tasks"
    ELSE LET bad == {i \in 1..Len(workflow.Tasks) : TaskDefect(workflow, i) # "ok"}
         IN  IF bad = {} THEN "ok"
             ELSE TaskDefect(workflow, CHOOSE i \in bad : \A k \in bad : i <= k)

\* C3: Validate returns an error for every workflow with an empty name, no
\* task, an empty or duplicate id, an empty prompt or a dependency id declared
\* nowhere; the error is the first such violation in checking order; and a
\* dependency is reported missing only if no task of the list, earlier or
\* later, has that id. (Validate only reads the workflow: the operator
\* returns the error and nothing else.)
C3_ValidateRejectsDefects ==
    vpc = "validated" =>
        /\ FirstDefect(wf) # "ok" => result.kind = FirstDefect(wf)
        /\ result.kind = "dependency_not_found" => result.dep \notin TaskIDsOf(wf)
        /\ (WellFormed(wf) /\ DepsDeclared(wf)) => result.kind \in {"ok", "circular"}

\* a workflow with two violations (an empty prompt, then an empty id) has been
\* rejected for the first of them
C3_Witness ==
    /\ vpc = "validated"
    /\ result.kind = "prompt_required"
    /\ \E i \in 1..Len(wf.Tasks) : wf.Tasks[i].ID = ""

\* a task that depends on a task declared after it has been accepted
C3_ForwardDependencyAccepted ==
    /\ vpc = "validated"
    /\ result.kind = "ok"
    /\ \E i, k \in 1..Len(wf.Tasks) :
          i < k /\ wf.Tasks[k].ID \in Range(wf.Tasks[i].DependsOn)

-----------------------------------------------------------------------------
(* internal/state: SwarmState *)

\* the Store as one value: the fields of SwarmState
Store ==
    [Agents |-> Agents, CompletedTasks |-> CompletedTasks, Events |-> Events,
     CompletedAt |-> CompletedAt, outputsCache |-> outputsCache]

\* NewSwarmState: no agent, nothing completed, an empty event log and cache
NewSwarmState ==
    [Agents |-> <<>>, CompletedTasks |-> <<>>, Events |-> <<>>,
     CompletedAt |-> FALSE, outputsCache |-> <<>>]

\* m[k] = v on a Go map
MapPut(m, k, v) == [x \in DOMAIN m \cup {k} |-> IF x = k THEN v ELSE m[x]]

\* addEvent: one more entry at the end of the event log
addEvent(st, eventType, agentID) ==
    [st EXCEPT !.Events = Append(@, <<eventType, agentID>>)]

\* what a Store operation hands back: the Store after it, the error (FALSE for
\* nil) and the returned value
Outcome(st, err, val) == [st |-> st, err |-> err, val |-> val]

\* AddAgent: fails if the task has an AgentState; else a new Running one
AddAgentLoggingFailure(st, taskID) ==
    IF taskID \in DOMAIN st.Agents
    THEN Outcome(addEvent(st, "task_started", taskID), TRUE, <<>>)
    ELSE Outcome(addEvent([st EXCEPT !.Agents =
                              MapPut(@, taskID, [TaskID |-> taskID, Status |-> "running",
                                                 Output |-> "", Error |-> "",
                                                 Questions |-> <<>>])],
                          "task_started", taskID),
                 FALSE, <<>>)
AddAgent(st, taskID) ==
    IF taskID \in DOMAIN st.Agents
    THEN Outcome(st, TRUE, <<>>)
    ELSE Outcome(addEvent([st EXCEPT !.Agents =
                              MapPut(@, taskID, [TaskID |-> taskID, Status |-> "running",
                                                 Output |-> "", Error |-> "",
                                                 Questions |-> <<>>])],
                          "task_started", taskID),
                 FALSE, <<>>)

\* s.CompletedTasks = append(s.CompletedTasks, taskID)
AppendCompletedAtFront(completed, taskID) == <<taskID>> \o completed
AppendCompleted(completed, taskID) == Append(completed, taskID)

\* CompleteTask: fails without an AgentState; else Completed, the output
\* stored in the agent and the cache, the id appended to the completed list
CompleteTaskOnce(st, taskID, output) ==
    IF taskID \notin DOMAIN st.Agents
    THEN Outcome(st, TRUE, <<>>)
    ELSE Outcome(addEvent([st EXCEPT !.Agents[taskID].Status = "completed",
                                     !.Agents[taskID].Output = output,
                                     !.CompletedTasks =
                                         IF taskID \in Range(@) THEN @
                                         ELSE AppendCompleted(@, taskID),
                                     !.outputsCache = MapPut(@, taskID, output)],
                          "task_completed", taskID),
                 FALSE, <<>>)
CompleteTask(st, taskID, output) ==
    IF taskID \notin DOMAIN st.Agents
    THEN Outcome(st, TRUE, <<>>)
    ELSE Outcome(addEvent([st EXCEPT !.Agents[taskID].Status = "completed",
                                     !.Agents[taskID].Output = output,
                                     !.CompletedTasks = AppendCompleted(@, taskID),
                                     !.outputsCache = MapPut(@, taskID, output)],
                          "task_completed", taskID),
                 FALSE, <<>>)

\* FailTask: fails without an AgentState; else Failed, the error text stored
FailTask(st, taskID, errorMsg) ==
    IF taskID \notin DOMAIN st.Agents
    THEN Outcome(st, TRUE, <<>>)
    ELSE Outcome(addEvent([st EXCEPT !.Agents[taskID].Status = "failed",
                                     !.Agents[taskID].Error = errorMsg],
                          "task_failed", taskID),
                 FALSE, <<>>)

\* AddQuestion: fails (returning 0) without an AgentState; else appends a
\* question whose id is the new length of the list, and returns that id
AddQuestion(st, taskID, questionText) ==
    IF taskID \notin DOMAIN st.Agents
    THEN Outcome(st, TRUE, 0)
    ELSE LET qID == Len(st.Agents[taskID].Questions) + 1
         IN  Outcome(addEvent([st EXCEPT !.Agents[taskID].Questions =
                                  Append(@, [ID |-> qID, Text |-> questionText,
                                             Answer |-> ""])],
                              "question_asked", taskID),
                     FALSE, qID)

\* AnswerQuestion: fails without an AgentState or with a question id outside
\* 1..len(Questions); else stores the answer in Questions[qID-1]
AnswerQuestion(st, taskID, qID, answer) ==
    IF taskID \notin DOMAIN st.Agents
    THEN Outcome(st, TRUE, <<>>)
    ELSE IF qID < 1 \/ qID > Len(st.Agents[taskID].Questions)
    THEN Outcome(st, TRUE, <<>>)
    ELSE Outcome(addEvent([st EXCEPT !.Agents[taskID].Questions[qID].Answer = answer],
                          "question_answered", taskID),
                 FALSE, <<>>)

\* isTaskCompleted: a scan of the completed list
isTaskCompletedIfSpawned(st, taskID) == taskID \in DOMAIN st.Agents
RECURSIVE isTaskCompletedFrom(_, _, _)
isTaskCompletedFrom(completed, i, taskID) ==
    IF i > Len(completed) THEN FALSE
    ELSE IF completed[i] = taskID THEN TRUE
    ELSE isTaskCompletedFrom(completed, i + 1, taskID)

isTaskCompleted(st, taskID) == isTaskCompletedFrom(st.CompletedTasks, 1, taskID)

\* the inner loop of GetReadyTasks: allDepsCompleted for the task
RECURSIVE allDepsCompletedFrom(_, _, _)
allDepsCompletedFrom(st, dependsOn, j) ==
    IF j > Len(dependsOn) THEN TRUE
    ELSE IF ~isTaskCompleted(st, dependsOn[j]) THEN FALSE
    ELSE allDepsCompletedFrom(st, dependsOn, j + 1)

\* "Skip if already spawned": the task has an entry in s.Agents
alreadySpawnedNever(st, taskID) == FALSE
alreadySpawned(st, taskID) == taskID \in DOMAIN st.Agents

\* "Check if all dependencies are completed"
allDepsCompletedAlways(st, task) == TRUE
allDepsCompleted(st, task) == allDepsCompletedFrom(st, task.DependsOn, 1)

\* GetReadyTasks: the loop over s.Workflow.Tasks from task i on
RECURSIVE GetReadyTasksFrom(_, _, _)
GetReadyTasksFrom(st, tasks, i) ==
    IF i > Len(tasks) THEN <<>>
    ELSE IF alreadySpawned(st, tasks[i].ID) THEN GetReadyTasksFrom(st, tasks, i + 1)
    ELSE IF allDepsCompleted(st, tasks[i])
         THEN <<tasks[i]>> \o GetReadyTasksFrom(st, tasks, i + 1)
         ELSE GetReadyTasksFrom(st, tasks, i + 1)

GetReadyTasks(st, workflow) == GetReadyTasksFrom(st, workflow.Tasks, 1)

\* GetOutputs: a copy of the output cache
GetOutputs(st) == [taskID \in DOMAIN st.outputsCache |-> st.outputsCache[taskID]]

\* IsComplete: len(s.CompletedTasks) == len(s.Workflow.Tasks)
IsComplete(st, workflow) == Len(st.CompletedTasks) = Len(workflow.Tasks)

\* MarkComplete: sets CompletedAt
MarkComplete(st) == [st EXCEPT !.CompletedAt = TRUE]

\* GetProgress: float64(len(CompletedTasks)) / float64(len(Tasks)) * 100.0, or
\* 100.0 without tasks. The value is kept as the exact fraction num/den; the
\* float64 division and product round monotonically, so the order of two
\* results is the order of their fractions.
GetProgress(st, workflow) ==
    IF Len(workflow.Tasks) = 0 THEN [num |-> 100, den |-> 1]
    ELSE [num |-> Len(st.CompletedTasks) * 100, den |-> Len(workflow.Tasks)]

\* the variables take the fields of st
SetStore(st) ==
    /\ Agents' = st.Agents
    /\ CompletedTasks' = st.CompletedTasks
    /\ Events' = st.Events
    /\ CompletedAt' = st.CompletedAt
    /\ outputsCache' = st.outputsCache

Returned(op, err, val) == [op |-> op, err |-> err, val |-> val]

\* a file of Persistence: absent, or holding all or a leading part of the
\* bytes of one marshalled Store (data is <<>> or <<the marshalled Store>>)
NoFile == [exists |-> FALSE, data |-> <<>>, part |-> "empty"]
EmptyFile == [exists |-> TRUE, data |-> <<>>, part |-> "empty"]
PartialFile(data) == [exists |-> TRUE, data |-> <<data>>, part |-> "partial"]
CompleteFile(data) == [exists |-> TRUE, data |-> <<data>>, part |-> "complete"]

\* the mutex is free
Unlocked == [writer |-> "", readers |-> {}]

StoreIdle ==
    /\ Agents = <<>>
    /\ CompletedTasks = <<>>
    /\ Events = <<>>
    /\ CompletedAt = FALSE
    /\ outputsCache = <<>>
    /\ ret = Returned("none", FALSE, <<>>)

EngineIdle ==
    /\ pc = "idle"
    /\ doneClosed = FALSE
    /\ fsEvents = <<>>
    /\ events = <<>>
    /\ files = <<>>
    /\ stateFile = NoFile
    /\ handled = 0
    /\ serverCalls = 0

\* the session directory the init command makes, $HOME/.claude-swarm/swarm-<time>:
\* a path is [abs, comps], whether it starts with a slash and its components,
\* a component being the sequence of the pieces of its name
SessionDir ==
    [abs |-> TRUE, comps |-> << <<"home">>, <<".claude-swarm">>, <<"swarm-", "1">> >>]

\* the goroutine monitor.Start starts with go m.watch(): at its select,
\* holding nothing, no watcher error taken
WatchIdle == [pc |-> "select", event |-> <<>>, taken |-> 0]

\* no Save or Load under way, no goroutine inside the Store, an empty
\* project tree, no Response written, the monitor's goroutine at its select
ConcIdle ==
    /\ mu = Unlocked
    /\ save = [pc |-> "idle", data |-> <<>>]
    /\ tmpFile = NoFile
    /\ crashes = 0
    /\ loaded = <<>>
    /\ mut = [pc |-> "idle"]
    /\ rd = [pc |-> "idle"]
    /\ tree = [dirs |-> {}, files |-> <<>>]
    /\ responses = <<>>
    /\ requests = <<>>
    /\ watch = WatchIdle
    /\ monErrors = <<>>

InitValidate ==
    /\ \/ \E n \in 1..MaxTasks, rev \in BOOLEAN :
             \* dependencies on any of the first MaxTasks ids: an id beyond
             \* the n declared tasks is a dangling dependency
             \E d \in [1..n -> SUBSET FirstIds(MaxTasks)] :
                wf = GraphWorkflow(n, d, rev)
       \/ \E name \in {"", "wf"}, n \in 0..MaxDefectTasks :
             \E tasks \in [1..n -> DefectTasks] :
                wf = [Name |-> name, Tasks |-> tasks]
    /\ vpc = "input"
    /\ result = NoError
    /\ StoreIdle
    /\ EngineIdle
    /\ ConcIdle
    /\ swarmDir = SessionDir

\* Parser.Validate on the workflow, the deps map ranged in any order
DoValidate ==
    /\ vpc = "input"
    /\ \E order \in Orders(TaskIDsOf(wf)) : result' = Validate(wf, order)
    /\ vpc' = "validated"
    /\ UNCHANGED <<monVars, execVars, concVars, wf, storeVars, ret, engineVars>>

NextValidate == DoValidate

SpecValidate == InitValidate /\ [][NextValidate]_vars

-----------------------------------------------------------------------------
(* Spec: the Store's operations called in any order, with any arguments *)

\* successful mutations per run of the Store (the length of the event log)
MaxEvents == 4
\* a task id no workflow declares
Undeclared == "Z"
Outputs == {"o1", "o2"}

\* the arguments a caller may pass as task id
IdArgs == TaskIDsOf(wf) \cup {Undeclared}

\* the workflows the Store is built on: a diamond (A; B after A; C after B
\* and A), a task declared before the one it depends on, two independent tasks
StoreWorkflows ==
    { GraphWorkflow(3, <<{}, {"A"}, {"A", "B"}>>, TRUE),
      GraphWorkflow(2, <<{"B"}, {}>>, FALSE),
      GraphWorkflow(2, <<{}, {}>>, FALSE) }

\* the workflow handed to NewSwarmState is one Parser.Parse returned, so it
\* has passed Validate
Init ==
    /\ wf \in StoreWorkflows
    /\ \E order \in Orders(TaskIDsOf(wf)) : Validate(wf, order).kind = "ok"
    /\ vpc = "validated"
    /\ result = NoError
    /\ StoreIdle
    /\ EngineIdle
    /\ ConcIdle
    /\ swarmDir = SessionDir

\* a mutating call: the Store takes the outcome's state, ret what was returned
Call(op, out) ==
    /\ Len(out.st.Events) <= MaxEvents
    /\ SetStore(out.st)
    /\ ret' = Returned(op, out.err, out.val)
    /\ UNCHANGED <<monVars, execVars, concVars, wf, vpc, result, engineVars>>

\* a read-only call
Read(op, val) ==
    /\ ret' = Returned(op, FALSE, val)
    /\ UNCHANGED <<monVars, execVars, concVars, wf, vpc, result, storeVars, engineVars>>

CallAddAgent == \E t \in IdArgs : Call("AddAgent", AddAgent(Store, t))

CallCompleteTask ==
    \E t \in IdArgs, o \in Outputs : Call("CompleteTask", CompleteTask(Store, t, o))

CallFailTask == \E t \in IdArgs : Call("FailTask", FailTask(Store, t, "e"))

CallAddQuestion == \E t \in IdArgs : Call("AddQuestion", AddQuestion(Store, t, "q"))

CallAnswerQuestion ==
    \E t \in IdArgs, q \in 0..MaxEvents :
        Call("AnswerQuestion", AnswerQuestion(Store, t, q, "a"))

CallGetReadyTasks == Read("GetReadyTasks", GetReadyTasks(Store, wf))

CallGetProgress == Read("GetProgress", GetProgress(Store, wf))

Next ==
    \/ CallAddAgent
    \/ CallCompleteTask
    \/ CallFailTask
    \/ CallAddQuestion
    \/ CallAnswerQuestion
    \/ CallGetReadyTasks
    \/ CallGetProgress

Spec == Init /\ [][Next]_vars

-----------------------------------------------------------------------------
(* Properties of the Store, checked under Spec *)

IsPrefix(s, t) == Len(s) <= Len(t) /\ \A i \in 1..Len(s) : s[i] = t[i]

\* p <= q for two GetProgress values
ProgressLe(p, q) == p.num * q.den <= q.num * p.den

\* the declared tasks with no AgentState whose dependency ids are all in the
\* completed list, in declaration order
ReadyByDefinition ==
    LET ready(task) ==
            /\ task.ID \notin DOMAIN Agents
            /\ Range(task.DependsOn) \subseteq Range(CompletedTasks)
    IN  SelectSeq(wf.Tasks, ready)

\* C4: what a GetReadyTasks call returned is exactly the list of declared
\* tasks that have no AgentState and whose dependencies are all completed, in
\* declaration order, in the Store as the call left it.
C4_GetReadyTasksExact ==
    ret.op = "GetReadyTasks" => ret.val = ReadyByDefinition

\* GetReadyTasks has returned a task with dependencies while another task,
\* not spawned either, was held back by an incomplete dependency
C4_Witness ==
    /\ ret.op = "GetReadyTasks"
    /\ \E i \in 1..Len(ret.val) : ret.val[i].DependsOn # <<>>
    /\ \E k \in 1..Len(wf.Tasks) :
          /\ wf.Tasks[k].ID \notin DOMAIN Agents
          /\ wf.Tasks[k] \notin Range(ret.val)

\* C7: an AgentState, once created, is never removed, and GetReadyTasks on
\* any later Store state does not return its task.
C7_SpawnedStaysSpawned ==
    /\ [][\A t \in DOMAIN Agents : t \in DOMAIN Agents']_vars
    /\ [](\A i \in 1..Len(GetReadyTasks(Store, wf)) :
             GetReadyTasks(Store, wf)[i].ID \notin DOMAIN Agents)

\* a declared task that has an AgentState, has failed, and has all its
\* dependencies completed, right after a GetReadyTasks call
C7_Witness ==
    /\ ret.op = "GetReadyTasks"
    /\ \E k \in 1..Len(wf.Tasks) :
          /\ wf.Tasks[k].ID \in DOMAIN Agents
          /\ Agents[wf.Tasks[k].ID].Status = "failed"
          /\ wf.Tasks[k].DependsOn # <<>>
          /\ Range(wf.Tasks[k].DependsOn) \subseteq Range(CompletedTasks)

NoTaskFailed == \A t \in DOMAIN Agents : Agents[t].Status # "failed"

\* C8: every step of the Store leaves the completed list a prefix of the new
\* one, and, when no task has failed, GetProgress after the step is not below
\* GetProgress before it.
C8_CompletedListGrows ==
    [][/\ IsPrefix(CompletedTasks, CompletedTasks')
       /\ NoTaskFailed' => ProgressLe(GetProgress(Store, wf), GetProgress(Store', wf))]_vars

\* two different tasks are in the completed list and GetProgress has been
\* called
C8_Witness ==
    /\ ret.op = "GetProgress"
    /\ ret.val.num > 0
    /\ Cardinality(Range(CompletedTasks)) >= 2

\* C9 as claimed: every id in the completed list has an AgentState whose
\* status is Completed.
C9_CompletedHaveStatusCompleted ==
    \A i \in 1..Len(CompletedTasks) :
        /\ CompletedTasks[i] \in DOMAIN Agents
        /\ Agents[CompletedTasks[i]].Status = "completed"

\* C10 as claimed: every id in the completed list is the id of a declared
\* task.
C10_CompletedAreDeclared ==
    Range(CompletedTasks) \subseteq TaskIDsOf(wf)

\* C11 as claimed: IsComplete is true exactly when every declared task is in
\* the completed list, and it is false while some declared task is Failed and
\* not in the completed list.
C11_IsCompleteIffAllCompleted ==
    /\ IsComplete(Store, wf) <=> TaskIDsOf(wf) \subseteq Range(CompletedTasks)
    /\ (\E t \in TaskIDsOf(wf) \cap DOMAIN Agents :
            Agents[t].Status = "failed" /\ t \notin Range(CompletedTasks))
          => ~IsComplete(Store, wf)

\* the declared tasks that depend on t, directly or through other tasks
DependentsOf(workflow, t) ==
    {d \in TaskIDsOf(workflow) :
        t \in ReachedIn({d}, DependsOnRel(workflow), Len(workflow.Tasks))}

\* the event log has a TaskFailed entry of t with no TaskCompleted entry of t
\* before it: FailTask was called on t when t had not completed
FailedBeforeCompleting(t) ==
    \E i \in 1..Len(Events) :
        /\ Events[i] = <<"task_failed", t>>
        /\ \A j \in 1..(i - 1) : Events[j] # <<"task_completed", t>>

\* the step is a successful call of the mutator op
Mutated(op) == Events' # Events /\ ret'.op = op

\* the task the last entry of the event log is about
LastEventTask(log) == log[Len(log)][2]

\* C26 as claimed: FailTask on a task that has not completed sets Failed,
\* stores the error and appends a TaskFailed event, and from then on
\* GetReadyTasks never returns a task that depends on it, directly or
\* transitively.
C26_FailedTaskBlocksDependents ==
    /\ [][Mutated("FailTask") =>
             LET t == LastEventTask(Events')
             IN  /\ Events' = Append(Events, <<"task_failed", t>>)
                 /\ Agents'[t].Status = "failed"
                 /\ Agents'[t].Error = "e"]_vars
    /\ [](\A t \in TaskIDsOf(wf) :
             FailedBeforeCompleting(t) =>
                 \A d \in DependentsOf(wf, t) :
                     \A i \in 1..Len(GetReadyTasks(Store, wf)) :
                         GetReadyTasks(Store, wf)[i].ID # d)

\* how many times t is in the list
Occurrences(list, t) == Cardinality({i \in 1..Len(list) : list[i] = t})

\* C27: CompleteTask on an existing agent sets Completed, stores the output
\* in the agent and in the output cache, appends the id to the completed list
\* and one TaskCompleted event to the log; a second CompleteTask of the same
\* task appends the id again.
C27_CompleteTaskAppendsEveryTime ==
    /\ [](\A t \in DOMAIN Agents, o \in Outputs :
             LET c == CompleteTask(Store, t, o)
             IN  /\ ~c.err
                 /\ c.st.Agents[t].Status = "completed"
                 /\ c.st.Agents[t].Output = o
                 /\ c.st.outputsCache[t] = o
                 /\ c.st.CompletedTasks = Append(CompletedTasks, t)
                 /\ c.st.Events = Append(Events, <<"task_completed", t>>))
    /\ [][Mutated("CompleteTask") =>
             LET t == LastEventTask(Events')
             IN  /\ Events' = Append(Events, <<"task_completed", t>>)
                 /\ CompletedTasks' = Append(CompletedTasks, t)
                 /\ Occurrences(CompletedTasks', t) = Occurrences(CompletedTasks, t) + 1
                 /\ Agents'[t].Status = "completed"
                 /\ outputsCache'[t] = Agents'[t].Output]_vars

\* CompleteTask has been called twice for one task, and the completed list
\* holds its id twice
C27_Witness ==
    /\ ret.op = "CompleteTask"
    /\ ~ret.err
    /\ \E t \in DOMAIN Agents :
          /\ Occurrences(CompletedTasks, t) = 2
          /\ Occurrences(Events, <<"task_completed", t>>) = 2

\* the question ids AnswerQuestion refuses for the agent of t
BadQuestionIDs(t) == (-1..(MaxEvents + 1)) \ (1..Len(Agents[t].Questions))

\* C28: a Store operation that fails returns an error and leaves the whole
\* Store as it was, event log included: AddAgent on a task with an
\* AgentState; CompleteTask, FailTask, AddQuestion and AnswerQuestion on a
\* task without one; AnswerQuestion with a question id out of range.
C28_FailedOperationChangesNothing ==
    /\ [](\A t \in IdArgs :
             IF t \in DOMAIN Agents
             THEN /\ AddAgent(Store, t).err
                  /\ AddAgent(Store, t).st = Store
                  /\ \A q \in BadQuestionIDs(t) :
                        /\ AnswerQuestion(Store, t, q, "a").err
                        /\ AnswerQuestion(Store, t, q, "a").st = Store
             ELSE /\ \A o \in Outputs : /\ CompleteTask(Store, t, o).err
                                        /\ CompleteTask(Store, t, o).st = Store
                  /\ FailTask(Store, t, "e").err
                  /\ FailTask(Store, t, "e").st = Store
                  /\ AddQuestion(Store, t, "q").err
                  /\ AddQuestion(Store, t, "q").st = Store
                  /\ \A q \in -1..(MaxEvents + 1) :
                        /\ AnswerQuestion(Store, t, q, "a").err
                        /\ AnswerQuestion(Store, t, q, "a").st = Store)
    /\ [][ret'.err => UNCHANGED storeVars]_vars

\* AnswerQuestion has just failed on an agent that has a question, and
\* AddAgent would fail on it too
C28_Witness ==
    /\ ret.op = "AnswerQuestion"
    /\ ret.err
    /\ \E t \in DOMAIN Agents : Len(Agents[t].Questions) >= 1
    /\ Len(Events) >= 2

\* C29 as claimed: what GetProgress returns is between 0 and 100, is 100
\* times the share of the declared tasks that are completed, and is 100 for a
\* workflow without tasks.
C29_ProgressIsShareOfCompleted ==
    ret.op = "GetProgress" =>
        /\ 0 <= ret.val.num
        /\ ret.val.num <= 100 * ret.val.den
        /\ Len(wf.Tasks) = 0 => ret.val = [num |-> 100, den |-> 1]
        /\ Len(wf.Tasks) > 0 =>
              ret.val.num * Cardinality(TaskIDsOf(wf))
                 = 100 * Cardinality(TaskIDsOf(wf) \cap Range(CompletedTasks)) * ret.val.den

-----------------------------------------------------------------------------
(* internal/orchestrator: FileMonitor and Orchestrator *)

\* capacity of FileMonitor.events
EventsCap == 100
\* /api/complete requests served in one run
MaxServerCompletes == 1

\* the message ids the workers' commands generate ("msg-<UnixNano>"), in the
\* order of their clock readings
MsgIDs == <<"msg-1", "msg-2", "msg-3", "msg-4">>

\* filepath.Join(messagesDir, fmt.Sprintf("%s.json", msgID)), below the worker
\* directory
MessageFile(id) ==
    CASE id = "msg-1" -> "messages/msg-1.json"
      [] id = "msg-2" -> "messages/msg-2.json"
      [] id = "msg-3" -> "messages/msg-3.json"
      [] id = "msg-4" -> "messages/msg-4.json"

\* a created file, as fsnotify reports it: the worker directory it is in and
\* its path below that directory
Created(taskID, name) == <<taskID, name>>

\* follow-up questions put into one worker directory in one run
MaxFollowUps == 103

\* followup/q-N.txt below the worker directory: the file of the N-th
\* follow-up question, which the worker's check-followup command looks for
FollowUpFile(n) == "followup/q-" \o ToString(n) \o ".txt"

FollowUpFiles == {FollowUpFile(n) : n \in 1..MaxFollowUps}

\* questions one worker asks in one run
MaxQuestions == 2

\* questions/q-N.txt and questions/a-N.txt below the worker directory: the
\* file the ask command writes the N-th question to, and the file it polls
QuestionFile(n) == "questions/q-" \o ToString(n) \o ".txt"
AnswerFile(n) == "questions/a-" \o ToString(n) \o ".txt"

QuestionFiles == {QuestionFile(n) : n \in 1..MaxQuestions}
AnswerFiles == {AnswerFile(n) : n \in 1..MaxQuestions}

\* detectEventType on the files created below a worker directory: the
\* markers of the complete command, the message files, the questions and
\* answers, the follow-up questions; any other name ("output.txt", a response
\* file) is not an event
detectEventType(name) ==
    CASE name = "COMPLETE" -> "task_completed"
      [] name = "status.txt" -> "agent_status_update"
      [] name \in QuestionFiles -> "question_asked"
      [] name \in AnswerFiles -> "question_answered"
      [] name \in {MessageFile(id) : id \in Range(MsgIDs)} -> "file_operation_request"
      [] name \in FollowUpFiles -> "followup_asked"
      [] OTHER -> ""

\* os.WriteFile of name in the worker directory of taskID
WriteFile(fs, taskID, name, content) ==
    MapPut(fs, taskID,
           MapPut(IF taskID \in DOMAIN fs THEN fs[taskID] ELSE <<>>, name, content))

FileExists(fs, taskID, name) == taskID \in DOMAIN fs /\ name \in DOMAIN fs[taskID]

\* spawnAgent for the ready tasks from the i-th on: a task of failed stops
\* before its context file is written (a directory or a watch could not be
\* made); the others get context.txt and an AgentState. Returns the Store and
\* the files.
RECURSIVE spawnAgents(_, _, _, _, _)
spawnAgents(st, fs, readyTasks, i, failed) ==
    IF i > Len(readyTasks) THEN [st |-> st, files |-> fs]
    ELSE LET taskID == readyTasks[i].ID
         IN  IF taskID \in failed
             THEN spawnAgents(st, fs, readyTasks, i + 1, failed)
             ELSE spawnAgents(AddAgent(st, taskID).st,
                              WriteFile(fs, taskID, "context.txt", "context"),
                              readyTasks, i + 1, failed)

\* spawnReadyAgents: GetReadyTasks, then spawnAgent for each of them; a failed
\* spawn is logged and skipped
spawnFirstReadyAgent(st, fs, workflow, failed) ==
    spawnAgents(st, fs, SubSeq(GetReadyTasks(st, workflow), 1, 1), 1, failed)
spawnReadyAgents(st, fs, workflow, failed) ==
    spawnAgents(st, fs, GetReadyTasks(st, workflow), 1, failed)

ReadyIds(st, workflow) == {t.ID : t \in Range(GetReadyTasks(st, workflow))}

\* handleTaskCompleted: read output.txt beside the marker, CompleteTask, then
\* spawnReadyAgents; an unreadable output or an unknown agent ends it
handleTaskCompleted(st, fs, workflow, agentID, failed) ==
    IF ~FileExists(fs, agentID, "output.txt") THEN [st |-> st, files |-> fs]
    ELSE LET c == CompleteTask(st, agentID, fs[agentID]["output.txt"])
         IN  IF c.err THEN [st |-> st, files |-> fs]
             ELSE spawnReadyAgents(c.st, fs, workflow, failed)

\* handleEvent: the dispatch on the event type
handleEvent(st, fs, workflow, event, failed) ==
    IF event[1] = "task_completed"
    THEN handleTaskCompleted(st, fs, workflow, event[2], failed)
    ELSE [st |-> st, files |-> fs]

\* what Persistence.Save writes: the exported fields of SwarmState
Snapshot(st) ==
    [Agents |-> st.Agents, CompletedTasks |-> st.CompletedTasks,
     Events |-> st.Events, CompletedAt |-> st.CompletedAt]

InitEngine ==
    /\ wf \in StoreWorkflows
    /\ \E order \in Orders(TaskIDsOf(wf)) : Validate(wf, order).kind = "ok"
    /\ vpc = "validated"
    /\ result = NoError
    /\ StoreIdle
    /\ pc = "start"
    /\ doneClosed = FALSE
    /\ fsEvents = <<>>
    /\ events = <<>>
    /\ files = <<>>
    /\ stateFile = NoFile
    /\ handled = 0
    /\ serverCalls = 0
    /\ ConcIdle
    /\ swarmDir = SessionDir

\* Run up to the main loop: monitor.Start, then spawnReadyAgents
Startup ==
    /\ pc = "start"
    /\ \E failed \in SUBSET ReadyIds(Store, wf) :
          LET r == spawnReadyAgents(Store, files, wf, failed)
          IN  SetStore(r.st) /\ files' = r.files
    /\ pc' = "loop"
    /\ UNCHANGED <<monVars, execVars, concVars, wf, vpc, result, ret, doneClosed, fsEvents, events, stateFile,
                   handled, serverCalls>>

\* the output the worker of a task produces
WorkerOutput(taskID) == <<"output of", taskID>>

\* a spawned worker runs its complete command: output.txt, status.txt, then
\* the COMPLETE marker, each creation reported by fsnotify
WorkerComplete ==
    /\ \E t \in DOMAIN Agents :
          /\ ~FileExists(files, t, "COMPLETE")
          /\ files' = WriteFile(WriteFile(WriteFile(files, t, "output.txt",
                                                    WorkerOutput(t)),
                                          t, "status.txt", "completed"),
                                t, "COMPLETE", "")
          /\ fsEvents' = fsEvents \o <<Created(t, "output.txt"),
                                       Created(t, "status.txt"),
                                       Created(t, "COMPLETE")>>
    /\ UNCHANGED <<monVars, execVars, concVars, wf, vpc, result, storeVars, ret, pc, doneClosed, events,
                   stateFile, handled, serverCalls>>

\* FileMonitor.watch takes one creation and handleCreate classifies it; the
\* send on the events channel blocks while the channel is full. Stop closes
\* the watcher, after which no creation is delivered.
MonitorStep ==
    /\ ~doneClosed
    /\ fsEvents # <<>>
    /\ LET created == Head(fsEvents)
           eventType == detectEventType(created[2])
       IN  IF eventType = ""
           THEN events' = events
           ELSE /\ Len(events) < EventsCap
                /\ events' = Append(events, <<eventType, created[1], created[2]>>)
    /\ fsEvents' = Tail(fsEvents)
    /\ UNCHANGED <<monVars, execVars, concVars, wf, vpc, result, storeVars, ret, pc, doneClosed, files,
                   stateFile, handled, serverCalls>>

\* the select of Run takes the events case: any ready case may be chosen, the
\* closed done channel being only one of them. (An operation request goes to
\* the MessageHandler: HandleOperationRequest; a question to
\* HandleQuestionAsked.)
HandleEvent ==
    /\ pc = "loop"
    /\ events # <<>>
    /\ Head(events)[1] \notin {"file_operation_request", "question_asked"}
    /\ \E failed \in SUBSET TaskIDsOf(wf) :
          LET r == handleEvent(Store, files, wf, Head(events), failed)
          IN  SetStore(r.st) /\ files' = r.files
    /\ events' = Tail(events)
    /\ handled' = handled + 1
    /\ UNCHANGED <<monVars, execVars, concVars, wf, vpc, result, ret, pc, doneClosed, fsEvents, stateFile,
                   serverCalls>>

\* the select of Run takes the ticker case: spawnReadyAgents, Save (which may
\* fail), and on IsComplete MarkComplete and the send on the done channel.
\* done is unbuffered and Run itself is its only receiver, so the send blocks;
\* on a closed done it panics.
Tick ==
    /\ pc = "loop"
    /\ \E failed \in SUBSET ReadyIds(Store, wf), saved \in BOOLEAN :
          LET r == spawnReadyAgents(Store, files, wf, failed)
              complete == IsComplete(r.st, wf)
              st2 == IF complete THEN MarkComplete(r.st) ELSE r.st
          IN  /\ SetStore(st2)
              /\ files' = r.files
              /\ stateFile' = IF saved THEN CompleteFile(Snapshot(r.st)) ELSE stateFile
              /\ pc' = IF ~complete THEN "loop"
                       ELSE IF doneClosed THEN "panicked" ELSE "blocked_send"
    /\ UNCHANGED <<monVars, execVars, concVars, wf, vpc, result, ret, doneClosed, fsEvents, events, handled,
                   serverCalls>>

\* the select of Run takes the done case
RunReturns ==
    /\ pc = "loop"
    /\ doneClosed
    /\ pc' = "returned"
    /\ UNCHANGED <<monVars, execVars, concVars, wf, vpc, result, storeVars, ret, doneClosed, fsEvents, events,
                   files, stateFile, handled, serverCalls>>

\* Orchestrator.Stop, called from the interface's goroutine: closes the
\* monitor's done, the watcher and the orchestrator's done. Closing done
\* under a blocked sender makes that send panic. (A Stop before Run has
\* started the monitor is left out: what monitor.Start does on a closed
\* watcher is decided by fsnotify.)
Stop ==
    /\ pc # "start"
    /\ ~doneClosed
    /\ doneClosed' = TRUE
    /\ pc' = IF pc = "blocked_send" THEN "panicked" ELSE pc
    /\ UNCHANGED <<monVars, execVars, concVars, wf, vpc, result, storeVars, ret, fsEvents, events, files,
                   stateFile, handled, serverCalls>>

\* Server.handleComplete: CompleteTask with the agent id and output of the
\* request; the server shares the Store with the orchestrator
ServerComplete ==
    /\ serverCalls < MaxServerCompletes
    /\ \E t \in IdArgs, o \in Outputs :
          LET c == CompleteTask(Store, t, o)
          IN  SetStore(c.st) /\ ret' = Returned("handleComplete", c.err, <<>>)
    /\ serverCalls' = serverCalls + 1
    /\ UNCHANGED <<monVars, execVars, concVars, wf, vpc, result, pc, doneClosed, fsEvents, events, files,
                   stateFile, handled>>

NextEngine ==
    \/ Startup
    \/ WorkerComplete
    \/ MonitorStep
    \/ HandleEvent
    \/ Tick
    \/ RunReturns
    \/ Stop
    \/ ServerComplete

SpecEngine == InitEngine /\ [][NextEngine]_vars

-----------------------------------------------------------------------------
(* Properties of the engine, checked under SpecEngine *)

DependsOnOf(workflow, taskID) ==
    UNION {Range(workflow.Tasks[i].DependsOn) :
              i \in {k \in 1..Len(workflow.Tasks) : workflow.Tasks[k].ID = taskID}}

\* C1: in the event log of every run of the engine, the TaskStarted event of
\* a task (its AddAgent) comes after a TaskCompleted event (a CompleteTask) of
\* each of its dependencies.
C1_SpawnAfterDependencies ==
    \A i \in 1..Len(Events) :
        Events[i][1] = "task_started" =>
            \A d \in DependsOnOf(wf, Events[i][2]) :
                \E j \in 1..(i - 1) : Events[j] = <<"task_completed", d>>

\* the engine has spawned a task that has two dependencies
C1_Witness ==
    \E t \in DOMAIN Agents : Cardinality(DependsOnOf(wf, t)) >= 2

\* C5 as claimed: once the periodic tick has found every task completed and
\* marked the session complete, Run has returned.
C5_RunReturnsOnceComplete ==
    CompletedAt => pc = "returned"

\* C6 as claimed: from the Stop onward the engine receives no event, creates
\* no AgentState, and the loop does not end in a failure.
C6_NothingHandledAfterStop ==
    [][doneClosed =>
          /\ handled' = handled
          /\ DOMAIN Agents' = DOMAIN Agents
          /\ pc' # "panicked"]_vars

\* every declared task whose dependencies are all in the completed list has
\* an AgentState
AllReadySpawned(st) ==
    \A i \in 1..Len(wf.Tasks) :
        Range(wf.Tasks[i].DependsOn) \subseteq Range(st.CompletedTasks)
            => wf.Tasks[i].ID \in DOMAIN st.Agents

\* the step is Run's startup
StartupStep == pc = "start" /\ pc' = "loop"

\* the step is Run handling a task-completed event
TaskCompletedHandled ==
    /\ handled' = handled + 1
    /\ events # <<>>
    /\ Head(events)[1] = "task_completed"

\* the step is the ticker case of Run
TickStep ==
    /\ pc = "loop"
    /\ pc' # "returned"
    /\ UNCHANGED <<events, fsEvents, handled, serverCalls, doneClosed>>

\* C30: after startup, after each handled task-completed event and after
\* each tick, every ready task has an AgentState, provided every spawn of the
\* step went through; at startup the spawned tasks are exactly those without
\* dependencies.
C30_ReadyTasksAreSpawned ==
    /\ [][(StartupStep /\ DOMAIN Agents'
                            = DOMAIN spawnReadyAgents(Store, files, wf, {}).st.Agents) =>
             /\ AllReadySpawned(Store')
             /\ DOMAIN Agents' = {wf.Tasks[i].ID : i \in {k \in 1..Len(wf.Tasks) :
                                                         wf.Tasks[k].DependsOn = <<>>}}]_vars
    /\ [][(TaskCompletedHandled /\ DOMAIN Agents'
                = DOMAIN handleEvent(Store, files, wf, Head(events), {}).st.Agents) =>
             /\ Head(events)[2] \in Range(CompletedTasks')
             /\ AllReadySpawned(Store')]_vars
    /\ [][(TickStep /\ DOMAIN Agents'
                         = DOMAIN spawnReadyAgents(Store, files, wf, {}).st.Agents) =>
             AllReadySpawned(Store')]_vars

\* Run has handled a completion and, in its loop, a task with dependencies
\* is spawned and no ready task is left without an AgentState
C30_Witness ==
    /\ pc = "loop"
    /\ handled >= 1
    /\ \E t \in DOMAIN Agents :
          /\ DependsOnOf(wf, t) # {}
          /\ DependsOnOf(wf, t) \subseteq Range(CompletedTasks)
          /\ FileExists(files, t, "context.txt")
    /\ AllReadySpawned(Store)

-----------------------------------------------------------------------------
(* internal/state: Persistence, checked under SpecPersist. Save runs in the  *)
(* coordinating goroutine (the ticker case of Run) step by step, other        *)
(* goroutines call the Store's mutators meanwhile, and the process may be     *)
(* killed between any two steps and started again on the same directory.      *)

\* successful mutations of the Store in one life of the process
MaxPersistEvents == 2
\* times the process is killed and started again
MaxCrashes == 1

\* p.stateFile and tmpFile := p.stateFile + ".tmp"
StatePath == "state.json"
tmpFileIsStateFile == StatePath
tmpFilePath == "state.json.tmp"

\* the two files as a directory: path -> file
Disk == [path \in {StatePath, "state.json.tmp"} |->
            IF path = StatePath THEN stateFile ELSE tmpFile]

SetDisk(d) ==
    /\ stateFile' = d[StatePath]
    /\ tmpFile' = d["state.json.tmp"]

\* os.Rename: the new name takes the file, the old name is gone
Rename(d, oldpath, newpath) ==
    IF oldpath = newpath THEN d
    ELSE [d EXCEPT ![newpath] = d[oldpath], ![oldpath] = NoFile]

\* json.MarshalIndent(state): the exported fields; mu and outputsCache are
\* unexported and are not written
Marshal(st) == Snapshot(st)

\* json.Unmarshal into a zero SwarmState: the exported fields take the values
\* of the document, outputsCache stays nil
Unmarshal(data) ==
    [Agents |-> data.Agents, CompletedTasks |-> data.CompletedTasks,
     Events |-> data.Events, CompletedAt |-> data.CompletedAt,
     outputsCache |-> <<>>]

\* Persistence.Load on the file: an error for a missing file and for bytes
\* that are not a whole document; else the unmarshalled Store, a nil Agents or
\* outputsCache map made an empty one
Load(file) ==
    IF ~file.exists THEN Outcome(NewSwarmState, TRUE, "state file not found")
    ELSE IF file.part # "complete" THEN Outcome(NewSwarmState, TRUE, "failed to unmarshal state")
    ELSE Outcome(Unmarshal(file.data[1]), FALSE, "")

SaveAt(p) == save.pc = p

\* Save leaves through its deferred RUnlock with this error
SaveReturning(err) == save' = [pc |-> "return", data |-> <<>>, err |-> err]

InitPersist ==
    /\ wf = GraphWorkflow(2, <<{}, {}>>, FALSE)
    /\ vpc = "validated"
    /\ result = NoError
    /\ StoreIdle
    /\ EngineIdle
    /\ ConcIdle
    /\ swarmDir = SessionDir

\* another goroutine (the network adapter) calls a mutator: Lock waits until
\* no shared holder is left
PersistMutate ==
    /\ mu.readers = {}
    /\ \E t \in TaskIDsOf(wf), op \in {"AddAgent", "CompleteTask", "AddQuestion"} :
          LET out == CASE op = "AddAgent" -> AddAgent(Store, t)
                       [] op = "CompleteTask" -> CompleteTask(Store, t, WorkerOutput(t))
                       [] op = "AddQuestion" -> AddQuestion(Store, t, "q")
          IN  /\ ~out.err
              /\ Len(out.st.Events) <= MaxPersistEvents
              /\ SetStore(out.st)
    /\ UNCHANGED <<monVars, execVars, wf, vpc, result, ret, engineVars, concVars>>

\* state.mu.RLock() and defer state.mu.RUnlock()
SaveRLock ==
    /\ SaveAt("idle")
    /\ mu.writer = ""
    /\ mu' = [mu EXCEPT !.readers = @ \cup {"Save"}]
    /\ save' = [pc |-> "locked", data |-> <<>>]
    /\ UNCHANGED <<monVars, execVars, wf, vpc, result, storeVars, ret, engineVars, tmpFile, crashes, loaded, mut, rd>>

\* json.MarshalIndent
SaveMarshal ==
    /\ SaveAt("locked")
    /\ \/ save' = [pc |-> "marshalled", data |-> <<Marshal(Store)>>]
       \/ SaveReturning("failed to marshal state")
    /\ UNCHANGED <<monVars, execVars, wf, vpc, result, storeVars, ret, engineVars, mu, tmpFile, crashes, loaded, mut, rd>>

\* os.WriteFile(tmpFile, ...): the file is opened, created or truncated
SaveOpen ==
    /\ SaveAt("marshalled")
    /\ \/ /\ SetDisk([Disk EXCEPT ![tmpFilePath] = EmptyFile])
          /\ save' = [save EXCEPT !.pc = "opened"]
       \/ /\ SaveReturning("failed to write state file")
          /\ UNCHANGED <<monVars, execVars, stateFile, tmpFile>>
    /\ UNCHANGED <<monVars, execVars, wf, vpc, result, storeVars, ret, pc, doneClosed, fsEvents, events,
                   files, handled, serverCalls, mu, crashes, loaded, mut, rd>>

\* os.WriteFile(tmpFile, ...): the bytes are written, all at once or a
\* leading part first; a failed write leaves what was written
SaveWrite ==
    /\ save.pc \in {"opened", "partial"}
    /\ \/ /\ SetDisk([Disk EXCEPT ![tmpFilePath] = CompleteFile(save.data[1])])
          /\ save' = [save EXCEPT !.pc = "written"]
       \/ /\ SaveAt("opened")
          /\ SetDisk([Disk EXCEPT ![tmpFilePath] = PartialFile(save.data[1])])
          /\ save' = [save EXCEPT !.pc = "partial"]
       \/ /\ SaveReturning("failed to write state file")
          /\ UNCHANGED <<monVars, execVars, stateFile, tmpFile>>
    /\ UNCHANGED <<monVars, execVars, wf, vpc, result, storeVars, ret, pc, doneClosed, fsEvents, events,
                   files, handled, serverCalls, mu, crashes, loaded, mut, rd>>

\* os.Rename(tmpFile, p.stateFile)
SaveRename ==
    /\ SaveAt("written")
    /\ \/ /\ SetDisk(Rename(Disk, tmpFilePath, StatePath))
          /\ SaveReturning("")
       \/ /\ SaveReturning("failed to rename state file")
          /\ UNCHANGED <<monVars, execVars, stateFile, tmpFile>>
    /\ UNCHANGED <<monVars, execVars, wf, vpc, result, storeVars, ret, pc, doneClosed, fsEvents, events,
                   files, handled, serverCalls, mu, crashes, loaded, mut, rd>>

\* the deferred state.mu.RUnlock() as Save returns
SaveRUnlock ==
    /\ SaveAt("return")
    /\ mu' = [mu EXCEPT !.readers = @ \ {"Save"}]
    /\ save' = [pc |-> "idle", data |-> <<>>]
    /\ ret' = Returned("Save", save.err # "", save.err)
    /\ UNCHANGED <<monVars, execVars, wf, vpc, result, storeVars, engineVars, tmpFile, crashes, loaded, mut, rd>>

\* Persistence.Load
DoLoad ==
    /\ loaded' = <<[file |-> stateFile, out |-> Load(stateFile)]>>
    /\ UNCHANGED <<monVars, execVars, wf, vpc, result, storeVars, ret, engineVars, mu, save, tmpFile, crashes, mut, rd>>

\* the process is killed, wherever Save is, and started again: the files stay,
\* the Store is a new one (runWorkflow builds it with NewSwarmState)
CrashRestart ==
    /\ crashes < MaxCrashes
    /\ crashes' = crashes + 1
    /\ SetStore(NewSwarmState)
    /\ mu' = Unlocked
    /\ save' = [pc |-> "idle", data |-> <<>>]
    /\ loaded' = <<>>
    /\ ret' = Returned("none", FALSE, <<>>)
    /\ UNCHANGED <<monVars, execVars, wf, vpc, result, engineVars, tmpFile, mut, rd>>

NextPersist ==
    \/ PersistMutate
    \/ SaveRLock
    \/ SaveMarshal
    \/ SaveOpen
    \/ SaveWrite
    \/ SaveRename
    \/ SaveRUnlock
    \/ DoLoad
    \/ CrashRestart

SpecPersist == InitPersist /\ [][NextPersist]_vars

-----------------------------------------------------------------------------
(* Properties of Persistence, checked under SpecPersist *)

\* C12: at every point during and after Save, a kill between any two of its
\* steps included, state.json is absent or holds a whole marshalled Store,
\* and whenever its content changes the new content is the whole marshalled
\* Store that the running Save is writing.
C12_SnapshotNeverPartial ==
    /\ [](stateFile.exists => stateFile.part = "complete")
    /\ [][stateFile' # stateFile =>
             /\ SaveAt("written")
             /\ stateFile' = CompleteFile(Marshal(Store))]_vars

\* the process was killed while a later Save had written only part of the
\* temporary file, and state.json still holds the snapshot of an earlier Save
C12_Witness ==
    /\ crashes >= 1
    /\ SaveAt("idle")
    /\ Events = <<>>
    /\ stateFile.exists
    /\ tmpFile.part = "partial"
    /\ tmpFile.data # stateFile.data

\* the questions recorded in a Store, over all agents
QuestionCount(st) ==
    LET RECURSIVE Sum(_)
        Sum(S) == IF S = {} THEN 0
                  ELSE LET t == CHOOSE x \in S : TRUE
                       IN  Len(st.Agents[t].Questions) + Sum(S \ {t})
    IN  Sum(DOMAIN st.Agents)

\* C13 as claimed: when Load has read the file a Save of the present Store
\* wrote, it returns a Store with as many agents, completed tasks and
\* questions as the present one, and with the same GetOutputs.
C13_LoadAfterSaveRoundTrip ==
    (loaded # <<>> /\ loaded[1].file = CompleteFile(Marshal(Store))) =>
        LET out == loaded[1].out
        IN  /\ ~out.err
            /\ Cardinality(DOMAIN out.st.Agents) = Cardinality(DOMAIN Agents)
            /\ Len(out.st.CompletedTasks) = Len(CompletedTasks)
            /\ QuestionCount(out.st) = QuestionCount(Store)
            /\ GetOutputs(out.st) = GetOutputs(Store)

\* os.WriteFile has opened the temporary file and has not returned yet
WriteFileInProgress == save.pc \in {"opened", "partial"}

\* C15 as claimed: while a filesystem call of Save is in progress, the
\* Store's lock is held neither shared nor exclusively.
C15_NoLockAcrossFilesystemCall ==
    WriteFileInProgress => (mu.writer = "" /\ mu.readers = {})

-----------------------------------------------------------------------------
(* SpecRace: one goroutine inside the Store's mutators, writing the words of *)
(* the Store one at a time under the exclusive lock, and the interface's     *)
(* goroutine drawing a view: it takes an AgentState pointer and then reads   *)
(* the AgentState's fields with no lock held.                                *)

\* successful mutations of the Store in one run
MaxRaceEvents == 3

\* the words a mutator writes, in the order of its statements. The slice
\* header of agent.Questions is more than one word (pointer and length),
\* assigned in an order the language does not fix.
WordsOf(op) ==
    CASE op = "AddAgent" -> {<<"Agents", "Events">>}
      [] op = "CompleteTask" ->
            {<<"Status", "Output", "CompletedTasks", "outputsCache", "Events">>}
      [] op = "AddQuestion" ->
            {<<"Questions.ptr", "Questions.len", "Events">>,
             <<"Questions.len", "Questions.ptr", "Events">>}

\* the Store after one more word of the call is written; target is the Store
\* as the whole call leaves it, written the words written before this one.
\* The Questions field takes its new value with the second word of its header.
WriteWord(st, target, taskID, word, written) ==
    CASE word = "Agents" -> [st EXCEPT !.Agents = target.Agents]
      [] word = "Status" -> [st EXCEPT !.Agents[taskID].Status = target.Agents[taskID].Status]
      [] word = "Output" -> [st EXCEPT !.Agents[taskID].Output = target.Agents[taskID].Output]
      [] word = "CompletedTasks" -> [st EXCEPT !.CompletedTasks = target.CompletedTasks]
      [] word = "outputsCache" -> [st EXCEPT !.outputsCache = target.outputsCache]
      [] word = "Events" -> [st EXCEPT !.Events = target.Events]
      [] word \in {"Questions.ptr", "Questions.len"} ->
            IF {"Questions.ptr", "Questions.len"} \subseteq written \cup {word}
            THEN [st EXCEPT !.Agents[taskID].Questions = target.Agents[taskID].Questions]
            ELSE st

\* a header word of the mutator's call on this agent is already in memory
HeaderWordWritten(taskID, word) ==
    /\ mut.pc = "inside"
    /\ mut.task = taskID
    /\ word \in mut.written

\* the pointer word of agent.Questions: the array the slice points to
QuestionsPtr(taskID) ==
    IF HeaderWordWritten(taskID, "Questions.ptr")
    THEN mut.target.Agents[taskID].Questions
    ELSE Agents[taskID].Questions

\* the length word of agent.Questions
QuestionsLen(taskID) ==
    IF HeaderWordWritten(taskID, "Questions.len")
    THEN Len(mut.target.Agents[taskID].Questions)
    ELSE Len(Agents[taskID].Questions)

InitRace ==
    /\ wf = GraphWorkflow(2, <<{}, {}>>, FALSE)
    /\ vpc = "validated"
    /\ result = NoError
    /\ StoreIdle
    /\ EngineIdle
    /\ ConcIdle
    /\ swarmDir = SessionDir

\* s.mu.Lock() of AddAgent, CompleteTask or AddQuestion, and the lookup of the
\* agent; a call that fails has nothing to write
MutLock ==
    /\ mut.pc = "idle"
    /\ mu = Unlocked
    /\ \E t \in TaskIDsOf(wf), op \in {"AddAgent", "CompleteTask", "AddQuestion"} :
          LET out == CASE op = "AddAgent" -> AddAgent(Store, t)
                       [] op = "CompleteTask" -> CompleteTask(Store, t, WorkerOutput(t))
                       [] op = "AddQuestion" -> AddQuestion(Store, t, "q")
          IN  /\ Len(out.st.Events) <= MaxRaceEvents
              /\ \E todo \in (IF out.err THEN {<<>>} ELSE WordsOf(op)) :
                    mut' = [pc |-> "inside", op |-> op, task |-> t, target |-> out.st,
                            todo |-> todo, written |-> {}]
    /\ mu' = [mu EXCEPT !.writer = "mutator"]
    /\ UNCHANGED <<monVars, execVars, wf, vpc, result, storeVars, ret, engineVars, save, tmpFile, crashes,
                   loaded, rd>>

\* one assignment of the mutator, with the lock held
MutWrite ==
    /\ mut.pc = "inside"
    /\ mut.todo # <<>>
    /\ SetStore(WriteWord(Store, mut.target, mut.task, Head(mut.todo), mut.written))
    /\ mut' = [mut EXCEPT !.todo = Tail(@), !.written = @ \cup {Head(mut.todo)}]
    /\ UNCHANGED <<monVars, execVars, wf, vpc, result, ret, engineVars, mu, save, tmpFile, crashes, loaded, rd>>

\* the deferred s.mu.Unlock()
MutUnlock ==
    /\ mut.pc = "inside"
    /\ mut.todo = <<>>
    /\ mut' = [pc |-> "idle"]
    /\ mu' = Unlocked
    /\ UNCHANGED <<monVars, execVars, wf, vpc, result, storeVars, ret, engineVars, save, tmpFile, crashes,
                   loaded, rd>>

\* renderTaskList: m.state.GetAgent(task.ID) takes and releases the shared
\* lock and hands out the pointer
ViewGetAgent ==
    /\ rd.pc = "idle"
    /\ mu.writer = ""
    /\ \E t \in DOMAIN Agents : rd' = [pc |-> "status", agent |-> t]
    /\ UNCHANGED <<monVars, execVars, wf, vpc, result, storeVars, ret, engineVars, mu, save, tmpFile, crashes,
                   loaded, mut>>

\* renderTaskList: switch agent.Status, no lock held
ViewReadStatus ==
    /\ rd.pc = "status"
    /\ rd' = [pc |-> "drawn", agent |-> rd.agent, Status |-> Agents[rd.agent].Status]
    /\ UNCHANGED <<monVars, execVars, wf, vpc, result, storeVars, ret, engineVars, mu, save, tmpFile, crashes,
                   loaded, mut>>

\* renderRecentQuestions: for _, agent := range m.state.Agents, no lock held
ViewRangeAgents ==
    /\ rd.pc = "idle"
    /\ \E t \in DOMAIN Agents, first \in {"Questions.ptr", "Questions.len"} :
          rd' = [pc |-> "header", agent |-> t, next |-> first, words |-> <<>>]
    /\ UNCHANGED <<monVars, execVars, wf, vpc, result, storeVars, ret, engineVars, mu, save, tmpFile, crashes,
                   loaded, mut>>

\* renderRecentQuestions: range agent.Questions reads one word of the slice
\* header, no lock held
ViewReadHeaderWord ==
    /\ rd.pc = "header"
    /\ LET value == IF rd.next = "Questions.ptr"
                    THEN [ptr |-> QuestionsPtr(rd.agent)]
                    ELSE [len |-> QuestionsLen(rd.agent)]
           other == IF rd.next = "Questions.ptr" THEN "Questions.len" ELSE "Questions.ptr"
       IN  IF rd.words = <<>>
           THEN rd' = [rd EXCEPT !.words = <<value>>, !.next = other]
           ELSE rd' = [pc |-> "ranged", agent |-> rd.agent,
                       ptr |-> IF rd.next = "Questions.ptr" THEN value.ptr ELSE rd.words[1].ptr,
                       len |-> IF rd.next = "Questions.len" THEN value.len ELSE rd.words[1].len]
    /\ UNCHANGED <<monVars, execVars, wf, vpc, result, storeVars, ret, engineVars, mu, save, tmpFile, crashes,
                   loaded, mut>>

\* the view is drawn; the next one starts two seconds later
ViewDone ==
    /\ rd.pc \in {"drawn", "ranged"}
    /\ rd' = [pc |-> "idle"]
    /\ UNCHANGED <<monVars, execVars, wf, vpc, result, storeVars, ret, engineVars, mu, save, tmpFile, crashes,
                   loaded, mut>>

NextRace ==
    \/ MutLock
    \/ MutWrite
    \/ MutUnlock
    \/ ViewGetAgent
    \/ ViewReadStatus
    \/ ViewRangeAgents
    \/ ViewReadHeaderWord
    \/ ViewDone

SpecRace == InitRace /\ [][NextRace]_vars

\* the interface's goroutine takes a step that reads a field of the Store or
\* of an AgentState
ViewReads == rd' # rd /\ rd'.pc # "idle"

\* C14 as claimed: no read of Store data by the interface's goroutine
\* overlaps a mutation (it is taken while no mutator is inside the Store),
\* and the slice it ranges over is the Questions list of the agent entirely
\* before or entirely after a concurrent AddQuestion: its length is the
\* length of its array.
C14_ReadersSeeNoTornWrite ==
    /\ [](rd.pc = "ranged" => rd.len = Len(rd.ptr))
    /\ [][ViewReads => mu.writer = ""]_vars

-----------------------------------------------------------------------------
(* internal/orchestrator: MessageHandler, the Operation Executor.            *)
(* A text is the sequence of its bytes; a path of the project tree is        *)
(* <<directory, file name>>.                                                 *)

\* strings.Contains(s, substr): substr starts at some index (the empty string
\* at every index)
Contains(s, substr) ==
    \E i \in 1..(Len(s) - Len(substr) + 1) : SubSeq(s, i, i + Len(substr) - 1) = substr

\* strings.Index(s, substr), from 1, for a substr that s contains
Index(s, substr) ==
    CHOOSE i \in 1..(Len(s) - Len(substr) + 1) :
        /\ SubSeq(s, i, i + Len(substr) - 1) = substr
        /\ \A j \in 1..(i - 1) : SubSeq(s, j, j + Len(substr) - 1) # substr

\* strings.ReplaceAll, for a non-empty old
RECURSIVE ReplaceAll(_, _, _)
ReplaceAll(s, old, new) ==
    IF old = <<>> \/ ~Contains(s, old) THEN s
    ELSE LET i == Index(s, old)
         IN  SubSeq(s, 1, i - 1) \o new
                \o ReplaceAll(SubSeq(s, i + Len(old), Len(s)), old, new)

\* strings.Replace(s, old, new, 1): the first occurrence of old replaced
ReplaceEvery(s, old, new) == ReplaceAll(s, old, new)
Replace(s, old, new) ==
    IF ~Contains(s, old) THEN s
    ELSE LET i == Index(s, old)
         IN  SubSeq(s, 1, i - 1) \o new \o SubSeq(s, i + Len(old), Len(s))

NewEdit(old, new) == [OldString |-> old, NewString |-> new]

NewMessage(id, type, path, content, command, edits) ==
    [ID |-> id, Type |-> type, Path |-> path, Content |-> content,
     Command |-> command, Edits |-> edits]

\* a Response; Error is the error text in its parts, <<>> for none
NewResponse(messageID, status, data, error) ==
    [MessageID |-> messageID, Status |-> status, Data |-> data, Error |-> error]

\* os.ReadFile on the project tree
ReadFile(tr, path) ==
    IF path \in DOMAIN tr.files THEN [content |-> tr.files[path], err |-> ""]
    ELSE [content |-> <<>>, err |-> "no such file or directory"]

\* os.WriteFile(path, content, 0644) on the project tree: the file is created
\* or replaced where the directory exists, no directory is made
OsWriteFile(tr, path, content) ==
    IF path[1] \in tr.dirs
    THEN [tree |-> [tr EXCEPT !.files = MapPut(@, path, content)], err |-> ""]
    ELSE [tree |-> tr, err |-> "no such file or directory"]

\* the loop of applyEdits from edit i on: the text after the edits, or the
\* number of the first edit whose old_string the text does not contain
RECURSIVE applyEditsFrom(_, _, _)
applyEditsFrom(text, edits, i) ==
    IF i > Len(edits) THEN [text |-> text, failed |-> 0]
    ELSE IF ~Contains(text, edits[i].OldString) THEN [text |-> text, failed |-> i]
    ELSE applyEditsFrom(Replace(text, edits[i].OldString, edits[i].NewString), edits, i + 1)

\* what applyEdits leaves on disk when edit number `failed` finds no
\* old_string: nothing is written
applyEditsWritesOnFailure(tr, path, text) == OsWriteFile(tr, path, text).tree
applyEditsOnFailure(tr, path, text) == tr

\* applyEdits: read the file, apply the edits to the text in memory, write the
\* text back once all edits are applied
applyEdits(tr, path, edits) ==
    LET read == ReadFile(tr, path)
        r == applyEditsFrom(read.content, edits, 1)
    IN  IF read.err # "" THEN [tree |-> tr, err |-> <<"failed to read file", read.err>>]
        ELSE IF r.failed # 0
        THEN [tree |-> applyEditsOnFailure(tr, path, r.text),
              err |-> <<"edit", r.failed, "old_string not found in file">>]
        ELSE LET w == OsWriteFile(tr, path, r.text)
             IN  IF w.err # "" THEN [tree |-> tr, err |-> <<"failed to write file", w.err>>]
                 ELSE [tree |-> w.tree, err |-> <<>>]

\* the outcomes of exec.Command("bash", "-c", command).CombinedOutput(): the
\* combined output and the error ("" for exit status 0)
RunOutcomes ==
    { [output |-> <<"o", "k">>, err |-> ""],
      [output |-> <<"n", "o">>, err |-> "exit status 1"] }

\* no external command was run
NoRun == [output |-> <<>>, err |-> ""]

\* the response of the bash case for a failed command: the error and the
\* partial output
bashErrorWithoutOutput(id, run) == NewResponse(id, "error", <<>>, <<run.err>>)
bashError(id, run) == NewResponse(id, "error", run.output, <<run.err>>)

\* the lines grep -r prints for the files of paths: one line per file whose
\* text contains the pattern
RECURSIVE grepLines(_, _, _)
grepLines(tr, pattern, paths) ==
    IF paths = {} THEN <<>>
    ELSE LET path == CHOOSE x \in paths : TRUE
             rest == grepLines(tr, pattern, paths \ {path})
         IN  IF Contains(tr.files[path], pattern) THEN <<path, tr.files[path]>> \o rest
             ELSE rest

\* executeGrep: bash -c "grep -r '<Content>' <Path>" and its combined output;
\* grep exits with status 1 when no line matches
executeGrep(msg, tr) ==
    LET lines == grepLines(tr, msg.Content, {x \in DOMAIN tr.files : x[1] = msg.Path[1]})
    IN  IF lines = <<>> THEN [output |-> <<>>, err |-> "exit status 1"]
        ELSE [output |-> lines, err |-> ""]

\* executeOperation: the operation of the message on the project tree, and the
\* Response. run is what the external command does if the message runs one.
\* (glob requests are not among the messages of this model.)
executeOperation(msg, tr, run) ==
    CASE msg.Type = "read_file" ->
            LET read == ReadFile(tr, msg.Path)
            IN  [tree |-> tr,
                 response |-> IF read.err # ""
                              THEN NewResponse(msg.ID, "error", <<>>, <<read.err>>)
                              ELSE NewResponse(msg.ID, "success", read.content, <<>>)]
      [] msg.Type = "write_file" ->
            LET w == OsWriteFile(tr, msg.Path, msg.Content)
            IN  [tree |-> w.tree,
                 response |-> IF w.err # ""
                              THEN NewResponse(msg.ID, "error", <<>>, <<w.err>>)
                              ELSE NewResponse(msg.ID, "success",
                                               <<"Wrote", Len(msg.Content), "bytes to", msg.Path>>, <<>>)]
      [] msg.Type = "edit_file" ->
            LET e == applyEdits(tr, msg.Path, msg.Edits)
            IN  [tree |-> e.tree,
                 response |-> IF e.err # <<>>
                              THEN NewResponse(msg.ID, "error", <<>>, e.err)
                              ELSE NewResponse(msg.ID, "success",
                                               <<"Applied", Len(msg.Edits), "edits to", msg.Path>>, <<>>)]
      [] msg.Type = "bash" ->
            [tree |-> tr,
             response |-> IF run.err # "" THEN bashError(msg.ID, run)
                          ELSE NewResponse(msg.ID, "success", run.output, <<>>)]
      [] msg.Type = "grep" ->
            [tree |-> tr,
             response |-> IF run.err # "" THEN NewResponse(msg.ID, "error", <<>>, <<run.err>>)
                          ELSE NewResponse(msg.ID, "success", run.output, <<>>)]
      [] OTHER ->
            [tree |-> tr,
             response |-> NewResponse(msg.ID, "error", <<>>, <<"unknown message type", msg.Type>>)]

\* filepath.Join(responseDir, fmt.Sprintf("%s-result.json", msg.ID)), below
\* the agent directory filepath.Dir(filepath.Dir(messagePath))
ResponseFile(id) ==
    CASE id = "msg-1" -> "responses/msg-1-result.json"
      [] id = "msg-2" -> "responses/msg-2-result.json"
      [] id = "msg-3" -> "responses/msg-3-result.json"
      [] id = "msg-4" -> "responses/msg-4-result.json"

\* HandleMessage up to the point where its os.WriteFile has created the
\* Response file: read and parse the message file (a file with no bytes yet
\* does not parse: an error, nothing is written), execute the operation, make
\* the Response, create (or truncate) its file. written lists the Response
\* this call writes, with its file, the message it answers and what the
\* external command did.
HandleMessage(fs, tr, agentID, name, run) ==
    LET data == fs[agentID][name]
    IN  IF data = <<>>
        THEN [files |-> fs, tree |-> tr, written |-> <<>>, err |-> "failed to parse message"]
        ELSE LET msg == data[1]
                 x == executeOperation(msg, tr, run)
             IN  [files |-> WriteFile(fs, agentID, ResponseFile(msg.ID), <<>>),
                  tree |-> x.tree,
                  written |-> <<[agent |-> agentID, file |-> ResponseFile(msg.ID),
                                 response |-> x.response, message |-> msg,
                                 run |-> IF msg.Type \in {"bash", "grep"} THEN run ELSE NoRun]>>,
                  err |-> ""]

\* the message in the file of the first queued event
HeadMessage == files[Head(events)[2]][Head(events)[3]][1]

\* the message file of the first queued event holds a grep request
HeadIsGrep ==
    LET data == files[Head(events)[2]][Head(events)[3]]
    IN  data # <<>> /\ data[1].Type = "grep"

\* the message file of the first queued event holds a bash request
HeadIsBash ==
    LET data == files[Head(events)[2]][Head(events)[3]]
    IN  data # <<>> /\ data[1].Type = "bash"

\* the rest of HandleMessage: os.WriteFile writes the bytes of the Response w
\* into its file
writeResponse(fs, w) == WriteFile(fs, w.agent, w.file, <<w.response>>)

\* the select of Run takes the events case with an operation request:
\* handleEvent hands the file to HandleMessage, which goes as far as creating
\* the Response file; an error is printed and the loop goes on
HandleOperationRequest ==
    /\ pc = "loop"
    /\ events # <<>>
    /\ Head(events)[1] = "file_operation_request"
    /\ \E run \in IF HeadIsBash THEN RunOutcomes
                   ELSE IF HeadIsGrep THEN {executeGrep(HeadMessage, tree)}
                   ELSE {NoRun} :
          LET r == HandleMessage(files, tree, Head(events)[2], Head(events)[3], run)
          IN  /\ files' = r.files
              /\ tree' = r.tree
              /\ responses' = responses \o r.written
              /\ pc' = IF r.written = <<>> THEN "loop" ELSE "write_response"
    /\ events' = Tail(events)
    /\ handled' = handled + 1
    /\ UNCHANGED <<monVars, wf, vpc, result, storeVars, ret, doneClosed, fsEvents, stateFile,
                   serverCalls, concVars, requests>>

\* HandleMessage finishes: the bytes of the Response are written, the handled
\* message is printed, and Run is back at its select
HandleMessageWrite ==
    /\ pc = "write_response"
    /\ files' = writeResponse(files, responses[Len(responses)])
    /\ pc' = "loop"
    /\ UNCHANGED <<monVars, execVars, concVars, wf, vpc, result, storeVars, ret, doneClosed, fsEvents,
                   events, stateFile, handled, serverCalls>>

-----------------------------------------------------------------------------
(* SpecEdit: edit-file requests. A worker has written the same edit request  *)
(* twice (two messages), the monitor has queued both, and the engine          *)
(* handles them one after the other.                                          *)

\* edit pairs in one request
MaxEdits == 2
\* bytes of the edited file, for the contents over the two-letter alphabet
MaxContentLen == 2

Foo == <<"f", "o", "o">>
Baz == <<"b", "a", "z">>
FooBarFoo == <<"f", "o", "o", " ", "b", "a", "r", " ", "f", "o", "o">>
BazBarFoo == <<"b", "a", "z", " ", "b", "a", "r", " ", "f", "o", "o">>
BazBarBaz == <<"b", "a", "z", " ", "b", "a", "r", " ", "b", "a", "z">>

\* the texts over {a, b} of length n
RECURSIVE TextsOfLen(_)
TextsOfLen(n) ==
    IF n = 0 THEN {<<>>}
    ELSE {Append(t, c) : t \in TextsOfLen(n - 1), c \in {"a", "b"}}

\* the old and new strings of the edit pairs
EditStrings == {<<>>, <<"a">>, <<"b">>, <<"a", "b">>}

EditPairs ==
    {NewEdit(old, new) : old \in EditStrings, new \in EditStrings}
        \cup {NewEdit(Foo, Baz)}

\* the file every edit request of the model names
EditedPath == <<"src", "f.txt">>

EditRequest(id, edits) == NewMessage(id, "edit_file", EditedPath, <<>>, "", edits)

InitEdit ==
    /\ wf = GraphWorkflow(2, <<{}, {}>>, FALSE)
    /\ vpc = "validated"
    /\ result = NoError
    /\ LET r == spawnReadyAgents(NewSwarmState, <<>>, wf, {})
       IN  /\ Agents = r.st.Agents
           /\ CompletedTasks = r.st.CompletedTasks
           /\ Events = r.st.Events
           /\ CompletedAt = r.st.CompletedAt
           /\ outputsCache = r.st.outputsCache
           /\ \E n \in 0..MaxEdits :
                 \E edits \in [1..n -> EditPairs] :
                    files = WriteFile(WriteFile(r.files, "A", MessageFile("msg-1"),
                                                <<EditRequest("msg-1", edits)>>),
                                      "A", MessageFile("msg-2"),
                                      <<EditRequest("msg-2", edits)>>)
    /\ ret = Returned("none", FALSE, <<>>)
    /\ pc = "loop"
    /\ doneClosed = FALSE
    /\ fsEvents = <<>>
    /\ events = << <<"file_operation_request", "A", MessageFile("msg-1")>>,
                   <<"file_operation_request", "A", MessageFile("msg-2")>> >>
    /\ stateFile = NoFile
    /\ handled = 0
    /\ serverCalls = 0
    /\ mu = Unlocked
    /\ save = [pc |-> "idle", data |-> <<>>]
    /\ tmpFile = NoFile
    /\ crashes = 0
    /\ loaded = <<>>
    /\ mut = [pc |-> "idle"]
    /\ rd = [pc |-> "idle"]
    /\ \E text \in UNION {TextsOfLen(n) : n \in 0..MaxContentLen} \cup {FooBarFoo, BazBarFoo} :
          tree = [dirs |-> {"src"}, files |-> MapPut(<<>>, EditedPath, text)]
    /\ responses = <<>>
    /\ requests = [id \in {"msg-1", "msg-2"} |-> "waiting"]
    /\ watch = WatchIdle
    /\ monErrors = <<>>
    /\ swarmDir = SessionDir

NextEdit ==
    \/ HandleOperationRequest
    \/ HandleMessageWrite

SpecEdit == InitEdit /\ [][NextEdit]_vars

-----------------------------------------------------------------------------
(* Properties of edit-file requests, checked under SpecEdit *)

\* old occurs in text at index p and at no index before p
FirstOccurrenceAt(text, old, p) ==
    /\ p + Len(old) - 1 <= Len(text)
    /\ SubSeq(text, p, p + Len(old) - 1) = old
    /\ \A j \in 1..(p - 1) : SubSeq(text, j, j + Len(old) - 1) # old

\* text with the Len(old) bytes from index p on replaced by new
Splice(text, p, old, new) ==
    SubSeq(text, 1, p - 1) \o new \o SubSeq(text, p + Len(old), Len(text))

\* final is text after the edits from number i on, each replacing the first
\* occurrence of its old string in the result of the ones before it
RECURSIVE FirstOccurrencesReplaced(_, _, _, _)
FirstOccurrencesReplaced(text, edits, i, final) ==
    IF i > Len(edits) THEN final = text
    ELSE \E p \in 1..(Len(text) + 1) :
            /\ FirstOccurrenceAt(text, edits[i].OldString, p)
            /\ FirstOccurrencesReplaced(
                   Splice(text, p, edits[i].OldString, edits[i].NewString),
                   edits, i + 1, final)

\* of the edits from number i on, applied to text, number k is the first
\* whose old string is missing
RECURSIVE EditFailsAt(_, _, _, _)
EditFailsAt(text, edits, i, k) ==
    IF i = k THEN \A p \in 1..(Len(text) + 1) : ~FirstOccurrenceAt(text, edits[k].OldString, p)
    ELSE \E p \in 1..(Len(text) + 1) :
            /\ FirstOccurrenceAt(text, edits[i].OldString, p)
            /\ EditFailsAt(Splice(text, p, edits[i].OldString, edits[i].NewString),
                           edits, i + 1, k)

\* the Response file the step has written
LastWritten == responses'[Len(responses')]

\* the step has handled an edit-file request and written its Response
EditHandled ==
    /\ Len(responses') = Len(responses) + 1
    /\ LastWritten.message.Type = "edit_file"

\* C18: an edit-file request that succeeds leaves the file with each pair, in
\* order, having replaced only the first occurrence of its old string in the
\* result of the pairs before it; "foo bar foo" with foo -> baz becomes
\* "baz bar foo", and the same request again makes it "baz bar baz".
C18_EditReplacesFirstOccurrences ==
    [][(EditHandled /\ LastWritten.response.Status = "success") =>
          LET before == tree.files[EditedPath]
              after == tree'.files[EditedPath]
              edits == LastWritten.message.Edits
          IN  /\ FirstOccurrencesReplaced(before, edits, 1, after)
              /\ (before = FooBarFoo /\ edits = <<NewEdit(Foo, Baz)>>) => after = BazBarFoo
              /\ (before = BazBarFoo /\ edits = <<NewEdit(Foo, Baz)>>) => after = BazBarBaz]_vars

\* the request foo -> baz has been handled twice on "foo bar foo", both times
\* with success, and the file reads "baz bar baz"
C18_Witness ==
    /\ Len(responses) = 2
    /\ \A i \in 1..2 : /\ responses[i].response.Status = "success"
                       /\ responses[i].message.Edits = <<NewEdit(Foo, Baz)>>
    /\ tree.files[EditedPath] = BazBarBaz

\* pair number k of the request, not the first pair, is the first whose old
\* string is missing when its turn comes
FailsAtLaterPair(k) ==
    /\ k \in 2..Len(LastWritten.message.Edits)
    /\ EditFailsAt(tree.files[EditedPath], LastWritten.message.Edits, 1, k)

-----------------------------------------------------------------------------
(* SpecExec: the message protocol end to end. Workers write operation        *)
(* requests into their messages directory, the monitor classifies the        *)
(* creations, and Run hands each request to HandleMessage.                   *)

\* operation requests the workers send
MaxMessages == 2

MissingPath == <<"src", "missing.txt">>
NewFilePath == <<"src", "g.txt">>
NewDirPath == <<"new", "g.txt">>
Hi == <<"h", "i">>

\* the requests a worker command may send under the message id it generated
ExecRequests(id) ==
    { NewMessage(id, "read_file", EditedPath, <<>>, "", <<>>),
      NewMessage(id, "read_file", MissingPath, <<>>, "", <<>>),
      NewMessage(id, "write_file", NewFilePath, Hi, "", <<>>),
      NewMessage(id, "write_file", NewDirPath, Hi, "", <<>>),
      NewMessage(id, "edit_file", EditedPath, <<>>, "", <<NewEdit(Foo, Baz)>>),
      NewMessage(id, "edit_file", EditedPath, <<>>, "",
                 <<NewEdit(Foo, Baz), NewEdit(<<"a", "b">>, <<>>)>>),
      NewMessage(id, "bash", <<>>, <<>>, "go test ./...", <<>>),
      NewMessage(id, "grep", <<"src">>, Foo, "", <<>>),
      NewMessage(id, "grep", <<"src">>, Hi, "", <<>>),
      NewMessage(id, "delete_file", EditedPath, <<>>, "", <<>>) }

\* the message files the workers have created so far
MessagesCreated ==
    {<<t, id>> \in (DOMAIN files) \X Range(MsgIDs) : FileExists(files, t, MessageFile(id))}

InitExec ==
    /\ wf = GraphWorkflow(2, <<{}, {}>>, FALSE)
    /\ vpc = "validated"
    /\ result = NoError
    /\ StoreIdle
    /\ pc = "start"
    /\ doneClosed = FALSE
    /\ fsEvents = <<>>
    /\ events = <<>>
    /\ files = <<>>
    /\ stateFile = NoFile
    /\ handled = 0
    /\ serverCalls = 0
    /\ mu = Unlocked
    /\ save = [pc |-> "idle", data |-> <<>>]
    /\ tmpFile = NoFile
    /\ crashes = 0
    /\ loaded = <<>>
    /\ mut = [pc |-> "idle"]
    /\ rd = [pc |-> "idle"]
    /\ tree = [dirs |-> {"src"}, files |-> MapPut(<<>>, EditedPath, FooBarFoo)]
    /\ responses = <<>>
    /\ requests = <<>>
    /\ watch = WatchIdle
    /\ monErrors = <<>>
    /\ swarmDir = SessionDir

\* the worker whose command sent the message id
RequesterOf(id) == CHOOSE t \in DOMAIN files : FileExists(files, t, MessageFile(id))

\* a worker command sends a request, first half of its os.WriteFile: the
\* message file is created (or truncated) and fsnotify reports the creation
WorkerCreateMessage ==
    /\ Cardinality(MessagesCreated) < MaxMessages
    /\ \E t \in DOMAIN Agents :
          LET id == MsgIDs[Cardinality(MessagesCreated) + 1]
          IN  /\ files' = WriteFile(files, t, MessageFile(id), <<>>)
              /\ fsEvents' = Append(fsEvents, Created(t, MessageFile(id)))
              /\ requests' = MapPut(requests, id, "writing")
    /\ UNCHANGED <<monVars, tree, responses, concVars, wf, vpc, result, storeVars, ret, pc, doneClosed,
                   events, stateFile, handled, serverCalls>>

\* second half of the worker's os.WriteFile: the bytes of the message; the
\* command then waits for the response
WorkerWriteMessage ==
    /\ \E id \in DOMAIN requests :
          /\ requests[id] = "writing"
          /\ \E msg \in ExecRequests(id) :
                files' = WriteFile(files, RequesterOf(id), MessageFile(id), <<msg>>)
          /\ requests' = [requests EXCEPT ![id] = "waiting"]
    /\ UNCHANGED <<monVars, tree, responses, concVars, wf, vpc, result, storeVars, ret, pc, doneClosed,
                   fsEvents, events, stateFile, handled, serverCalls>>

\* the ticker case of the command's wait loop when os.Stat finds the response
\* file: the file is read and parsed, and the command returns the result of
\* the Response (printing Data, or failing with its Error); a file without
\* bytes does not parse and the command fails with that
WorkerPoll ==
    /\ \E id \in DOMAIN requests :
          /\ requests[id] = "waiting"
          /\ FileExists(files, RequesterOf(id), ResponseFile(id))
          /\ requests' = [requests EXCEPT ![id] =
                             IF files[RequesterOf(id)][ResponseFile(id)] = <<>>
                             THEN "failed to parse response"
                             ELSE "returned"]
    /\ UNCHANGED <<monVars, tree, responses, concVars, wf, vpc, result, storeVars, ret, engineVars>>

\* the timeout case of the wait loop: the command fails with the timeout
\* error. The select takes it whenever the timer has fired, the ticker being
\* ready or not.
WorkerTimeout ==
    /\ \E id \in DOMAIN requests :
          /\ requests[id] = "waiting"
          /\ requests' = [requests EXCEPT ![id] = "timeout"]
    /\ UNCHANGED <<monVars, tree, responses, concVars, wf, vpc, result, storeVars, ret, engineVars>>

NextExec ==
    \/ Startup
    \/ WorkerCreateMessage
    \/ WorkerWriteMessage
    \/ MonitorStep
    \/ HandleOperationRequest
    \/ HandleMessageWrite

SpecExec == InitExec /\ [][NextExec]_vars

\* SpecExec with the wait loops of the workers' commands
NextRequest ==
    \/ Startup
    \/ WorkerCreateMessage
    \/ WorkerWriteMessage
    \/ WorkerPoll
    \/ WorkerTimeout
    \/ MonitorStep
    \/ HandleOperationRequest
    \/ HandleMessageWrite

SpecRequest == InitExec /\ [][NextRequest]_vars

\* the step is Run handling an operation-request event
OperationRequestHandled ==
    /\ handled' = handled + 1
    /\ events # <<>>
    /\ Head(events)[1] = "file_operation_request"

\* C16: for every operation-request event the engine handles, HandleMessage
\* writes exactly one Response, at responses/<message id>-result.json in the
\* directory of the worker that wrote the message, with the id of the message
\* and status success or error; the message file is left as it was.
C16_OneCorrelatedResponsePerRequest ==
    /\ [][OperationRequestHandled =>
          LET agentID == Head(events)[2]
              name == Head(events)[3]
          IN  /\ Len(responses') = Len(responses) + 1
              /\ responses'[Len(responses')].agent = agentID
              /\ \E id \in Range(MsgIDs) :
                    /\ name = MessageFile(id)
                    /\ responses'[Len(responses')].file = ResponseFile(id)
                    /\ responses'[Len(responses')].response.MessageID = id
                    /\ FileExists(files', agentID, ResponseFile(id))
              /\ responses'[Len(responses')].response.Status \in {"success", "error"}
              /\ FileExists(files', agentID, name)
              /\ files'[agentID][name] = files[agentID][name]
              /\ pc' = "write_response"]_vars
    /\ [][(pc = "write_response" /\ pc' # pc) =>
             LET w == responses[Len(responses)]
             IN  /\ files'[w.agent][w.file] = <<w.response>>
                 /\ files'[w.agent][MessageFile(w.message.ID)] = <<w.message>>
                 /\ responses' = responses]_vars

\* the operation of the message fails on the tree, or its command exits
\* non-zero
OperationFails(w, tr) ==
    CASE w.message.Type = "read_file" -> w.message.Path \notin DOMAIN tr.files
      [] w.message.Type = "write_file" -> w.message.Path[1] \notin tr.dirs
      [] w.message.Type = "edit_file" ->
            \/ w.message.Path \notin DOMAIN tr.files
            \/ \E k \in 1..Len(w.message.Edits) :
                  EditFailsAt(tr.files[w.message.Path], w.message.Edits, 1, k)
      [] w.message.Type \in {"bash", "grep"} -> w.run.err # ""
      [] OTHER -> TRUE

\* C17: an operation that fails (a missing file, an absent old string, a
\* command that exits non-zero, an unknown kind) gets a Response with status
\* error and the error text, for a command with the captured output too, and
\* Run stays in its loop.
C17_FailedOperationGetsErrorResponse ==
    /\ [][(OperationRequestHandled /\ Len(responses') = Len(responses) + 1
              /\ OperationFails(responses'[Len(responses')], tree)) =>
             LET w == responses'[Len(responses')]
             IN  /\ w.response.Status = "error"
                 /\ w.response.Error # <<>>
                 /\ w.message.Type = "bash" =>
                       /\ w.response.Error = <<w.run.err>>
                       /\ w.run.output # <<>>
                       /\ w.response.Data = w.run.output
                 /\ pc' = "write_response"]_vars
    /\ [][(pc = "write_response" /\ pc' # pc) =>
             /\ pc' = "loop"
             /\ files'[responses[Len(responses)].agent][responses[Len(responses)].file]
                   = <<responses[Len(responses)].response>>]_vars

\* each kind of failure has been answered: a missing file, an absent old
\* string, a command that exited non-zero with output, an unknown kind, and
\* Run is back in its loop
C17_Witness ==
    /\ \E i \in 1..Len(responses) :
          /\ responses[i].message.Type = "bash"
          /\ responses[i].run.err # ""
          /\ responses[i].response.Status = "error"
          /\ responses[i].response.Data = responses[i].run.output
    /\ \E i \in 1..Len(responses) :
          /\ responses[i].message.Type \in {"read_file", "edit_file", "delete_file"}
          /\ responses[i].response.Status = "error"
    /\ pc = "loop"

\* no file below the directory of the request has the pattern in its text
NoMatch(msg, tr) ==
    \A path \in DOMAIN tr.files :
        path[1] = msg.Path[1] =>
            \A i \in 1..(Len(tr.files[path]) + 1) :
                ~FirstOccurrenceAt(tr.files[path], msg.Content, i)

\* C21 as claimed: a content-search request that finds no match is answered
\* with status success and an empty payload, not with an error.
C21_GrepWithoutMatchesSucceeds ==
    [][(OperationRequestHandled /\ Len(responses') = Len(responses) + 1
            /\ responses'[Len(responses')].message.Type = "grep"
            /\ NoMatch(responses'[Len(responses')].message, tree)) =>
          /\ responses'[Len(responses')].response.Status = "success"
          /\ responses'[Len(responses')].response.Data = <<>>
          /\ responses'[Len(responses')].response.Error = <<>>]_vars

\* C20: a write-file request whose parent directory does not exist creates
\* it, writes the content and answers success with the number of bytes.
C20_WriteFileCreatesParentDirectories ==
    [][(OperationRequestHandled /\ Len(responses') = Len(responses) + 1
            /\ responses'[Len(responses')].message.Type = "write_file"
            /\ responses'[Len(responses')].message.Path[1] \notin tree.dirs) =>
          LET w == responses'[Len(responses')]
          IN  /\ w.message.Path[1] \in tree'.dirs
              /\ w.message.Path \in DOMAIN tree'.files
              /\ tree'.files[w.message.Path] = w.message.Content
              /\ w.response.Status = "success"
              /\ w.response.Data
                    = <<"Wrote", Len(w.message.Content), "bytes to", w.message.Path>>]_vars

-----------------------------------------------------------------------------
(* SpecInterp: Parser.InterpolatePrompt, as generateAgentContext calls it on *)
(* a task's prompt and the Store's outputs. Texts are sequences of pieces of *)
(* text; a placeholder is the three pieces "{", the task id, ".output}".      *)

\* pieces (words or placeholders) of a prompt
MaxPieces == 3

\* fmt.Sprintf("{%s.output}", taskID)
Placeholder(taskID) == <<"{", taskID, ".output}">>

\* InterpolatePrompt: the loop over the outputs map in the order the range
\* takes, from entry k on
RECURSIVE InterpolateFrom(_, _, _, _)
InterpolateFrom(text, outputs, order, k) ==
    IF k > Len(order) THEN text
    ELSE InterpolateFrom(ReplaceAll(text, Placeholder(order[k]), outputs[order[k]]),
                         outputs, order, k + 1)

InterpolatePrompt(prompt, outputs, order) == InterpolateFrom(prompt, outputs, order, 1)

\* the ids the prompts and outputs of the model speak of; "A" differs from
\* "a" in case only
PromptPieces == {<<"See">>, Placeholder("a"), Placeholder("b"), Placeholder("A")}

RECURSIVE PromptsOf(_)
PromptsOf(n) ==
    IF n = 0 THEN {<<>>}
    ELSE {p \o piece : p \in PromptsOf(n - 1), piece \in PromptPieces}

SeeAAndB == <<"See">> \o Placeholder("a") \o <<"and">> \o Placeholder("b")

\* the outputs tasks have produced: plain text, or text that itself reads
\* like a placeholder
OutputTexts == {<<"X">>, <<"Y">>, Placeholder("b")}

OutputMaps == UNION {[ids -> OutputTexts] : ids \in SUBSET {"a", "b"}}

InitInterp ==
    /\ \E prompt \in UNION {PromptsOf(n) : n \in 0..MaxPieces} \cup {SeeAAndB} :
          wf = [Name |-> "w", Tasks |-> <<NewTask("C", prompt, <<>>)>>]
    /\ vpc = "validated"
    /\ result = NoError
    /\ Agents = <<>>
    /\ CompletedTasks = <<>>
    /\ Events = <<>>
    /\ CompletedAt = FALSE
    /\ outputsCache \in OutputMaps
    /\ ret = Returned("none", FALSE, <<>>)
    /\ EngineIdle
    /\ ConcIdle
    /\ swarmDir = SessionDir

\* generateAgentContext: InterpolatePrompt(task.Prompt, GetOutputs()), the
\* range over the map taking any order
CallInterpolatePrompt ==
    /\ ret.op = "none"
    /\ \E order \in Orders(DOMAIN GetOutputs(Store)) :
          ret' = Returned("InterpolatePrompt", FALSE,
                          InterpolatePrompt(wf.Tasks[1].Prompt, GetOutputs(Store), order))
    /\ UNCHANGED <<monVars, execVars, concVars, wf, vpc, result, storeVars, engineVars>>

NextInterp == CallInterpolatePrompt

SpecInterp == InitInterp /\ [][NextInterp]_vars

\* the placeholder of id starts at index i of the text
PlaceholderAt(text, i, id) ==
    /\ i + 2 <= Len(text)
    /\ SubSeq(text, i, i + 2) = Placeholder(id)

\* the text from index i on with every placeholder of an id of the map
\* replaced by the output of that id, everything else as it is
RECURSIVE SubstitutedFrom(_, _, _)
SubstitutedFrom(text, outputs, i) ==
    IF i > Len(text) THEN <<>>
    ELSE IF \E id \in DOMAIN outputs : PlaceholderAt(text, i, id)
    THEN LET id == CHOOSE x \in DOMAIN outputs : PlaceholderAt(text, i, x)
         IN  outputs[id] \o SubstitutedFrom(text, outputs, i + 3)
    ELSE <<text[i]>> \o SubstitutedFrom(text, outputs, i + 1)

\* C25 as claimed: InterpolatePrompt returns the prompt with every
\* placeholder {id.output} of an id of the outputs map replaced by
\* outputs[id] (ids matched with their case) and every other placeholder
\* left verbatim; "See {a.output} and {b.output}" gives "See X and Y" with
\* {a: X, b: Y} and "See X and {b.output}" with {a: X}.
C25_InterpolateReplacesKnownPlaceholders ==
    ret.op = "InterpolatePrompt" =>
        LET prompt == wf.Tasks[1].Prompt
        IN  /\ ret.val = SubstitutedFrom(prompt, outputsCache, 1)
            /\ (prompt = SeeAAndB /\ outputsCache = [id \in {"a", "b"} |->
                                                        IF id = "a" THEN <<"X">> ELSE <<"Y">>])
                  => ret.val = <<"See", "X", "and", "Y">>
            /\ (prompt = SeeAAndB /\ outputsCache = [id \in {"a"} |-> <<"X">>])
                  => ret.val = <<"See", "X", "and">> \o Placeholder("b")

\* C22 as claimed: a request command that waits leaves its wait loop either
\* with the result of the Response, when its poll finds the response file, or
\* with the timeout error; it ends once and stays ended; the message file is
\* never written again; and a timeout changes nothing but that request.
C22_RequestReturnsResultOrTimesOutOnce ==
    /\ [][\A id \in DOMAIN requests :
             (requests[id] = "waiting" /\ requests'[id] # "waiting") =>
                 \/ /\ requests'[id] = "returned"
                    /\ \E w \in Range(responses) :
                          /\ w.response.MessageID = id
                          /\ files[RequesterOf(id)][ResponseFile(id)] = <<w.response>>
                 \/ /\ requests'[id] = "timeout"
                    /\ \A other \in DOMAIN requests \ {id} : requests'[other] = requests[other]
                    /\ UNCHANGED <<tree, responses, storeVars, engineVars>>]_vars
    /\ [][\A id \in DOMAIN requests :
             requests[id] \notin {"writing", "waiting"} => requests'[id] = requests[id]]_vars
    /\ [][\A id \in DOMAIN requests :
             requests[id] # "writing" =>
                 files'[RequesterOf(id)][MessageFile(id)]
                    = files[RequesterOf(id)][MessageFile(id)]]_vars

-----------------------------------------------------------------------------
(* FileMonitor.watch step by step, checked under SpecMonitor: one worker    *)
(* directory into which follow-up questions are put, the watcher's errors,  *)
(* Run receiving events and errors, and Stop                                *)

\* capacity of FileMonitor.errors
ErrorsCap == 10
\* errors the watcher reports in one run
MaxWatcherErrors == 1
\* creations the watcher holds that FileMonitor.watch has not taken yet
MaxPending == 1

\* the text of the N-th follow-up question
FollowUpQuestion(n) == <<"follow-up", n>>

\* the follow-up questions in the worker directory of taskID
FollowUpsIn(fs, taskID) ==
    IF taskID \notin DOMAIN fs THEN {}
    ELSE FollowUpFiles \cap DOMAIN fs[taskID]

InitMonitor ==
    /\ wf = GraphWorkflow(1, <<{}>>, FALSE)
    /\ vpc = "validated"
    /\ result = NoError
    /\ StoreIdle
    /\ pc = "start"
    /\ doneClosed = FALSE
    /\ fsEvents = <<>>
    /\ events = <<>>
    /\ files = <<>>
    /\ stateFile = NoFile
    /\ handled = 0
    /\ serverCalls = 0
    /\ ConcIdle
    /\ swarmDir = SessionDir

\* the coordinator puts the next follow-up question into the directory of a
\* spawned worker; the watcher reports the creation while it is open
PutFollowUp ==
    /\ ~doneClosed
    /\ Len(fsEvents) < MaxPending
    /\ \E t \in DOMAIN Agents :
          LET n == Cardinality(FollowUpsIn(files, t)) + 1
          IN  /\ n <= MaxFollowUps
              /\ files' = WriteFile(files, t, FollowUpFile(n), FollowUpQuestion(n))
              /\ fsEvents' = Append(fsEvents, Created(t, FollowUpFile(n)))
    /\ UNCHANGED <<monVars, execVars, concVars, wf, vpc, result, storeVars, ret, pc, doneClosed,
                   events, stateFile, handled, serverCalls>>

\* handleCreate on a created file: nothing for a name that is no event, else
\* the FileEvent it is about to send
handleCreate(w, created) ==
    IF detectEventType(created[2]) = "" THEN w
    ELSE [w EXCEPT !.pc = "send",
                   !.event = <<detectEventType(created[2]), created[1], created[2]>>]

\* the select of watch takes the watcher.Events case: handleCreate up to its
\* send
WatchTake ==
    /\ pc # "start"
    /\ watch.pc = "select"
    /\ ~doneClosed
    /\ fsEvents # <<>>
    /\ watch' = handleCreate(watch, Head(fsEvents))
    /\ fsEvents' = Tail(fsEvents)
    /\ UNCHANGED <<monErrors, swarmDir, execVars, concVars, wf, vpc, result, storeVars, ret, pc, doneClosed,
                   events, files, stateFile, handled, serverCalls>>

\* m.events <- FileEvent{...} in handleCreate: a plain send, which waits for
\* room in the channel whatever happens to done, then back to the select
WatchSendOrDrop ==
    /\ watch.pc = "send"
    /\ events' = IF Len(events) < EventsCap THEN Append(events, watch.event) ELSE events
    /\ watch' = [watch EXCEPT !.pc = "select", !.event = <<>>]
    /\ UNCHANGED <<monErrors, swarmDir, execVars, concVars, wf, vpc, result, storeVars, ret, pc, doneClosed,
                   fsEvents, files, stateFile, handled, serverCalls>>
WatchSend ==
    /\ watch.pc = "send"
    /\ Len(events) < EventsCap
    /\ events' = Append(events, watch.event)
    /\ watch' = [watch EXCEPT !.pc = "select", !.event = <<>>]
    /\ UNCHANGED <<monErrors, swarmDir, execVars, concVars, wf, vpc, result, storeVars, ret, pc, doneClosed,
                   fsEvents, files, stateFile, handled, serverCalls>>

\* the select of watch takes the watcher.Errors case
WatchTakeError ==
    /\ pc # "start"
    /\ watch.pc = "select"
    /\ ~doneClosed
    /\ watch.taken < MaxWatcherErrors
    /\ watch' = [watch EXCEPT !.pc = "send_error",
                              !.event = <<"watcher error", watch.taken + 1>>,
                              !.taken = @ + 1]
    /\ UNCHANGED <<monErrors, swarmDir, execVars, concVars, wf, vpc, result, storeVars, ret, engineVars>>

\* m.errors <- err: a plain send as well
WatchSendError ==
    /\ watch.pc = "send_error"
    /\ Len(monErrors) < ErrorsCap
    /\ monErrors' = Append(monErrors, watch.event)
    /\ watch' = [watch EXCEPT !.pc = "select", !.event = <<>>]
    /\ UNCHANGED <<swarmDir, execVars, concVars, wf, vpc, result, storeVars, ret, engineVars>>

\* the select of watch takes the done case, or finds the channels of the
\* closed watcher closed
WatchReturns ==
    /\ watch.pc = "select"
    /\ doneClosed
    /\ watch' = [watch EXCEPT !.pc = "returned"]
    /\ UNCHANGED <<monErrors, swarmDir, execVars, concVars, wf, vpc, result, storeVars, ret, engineVars>>

\* the select of Run takes the monitor.Errors case: the error is printed
RunReceivesError ==
    /\ pc = "loop"
    /\ monErrors # <<>>
    /\ monErrors' = Tail(monErrors)
    /\ UNCHANGED <<watch, swarmDir, execVars, concVars, wf, vpc, result, storeVars, ret, engineVars>>

NextMonitor ==
    \/ Startup
    \/ PutFollowUp
    \/ WatchTake
    \/ WatchSend
    \/ WatchTakeError
    \/ WatchSendError
    \/ WatchReturns
    \/ HandleEvent
    \/ RunReceivesError
    \/ RunReturns
    \/ Stop

SpecMonitor == InitMonitor /\ [][NextMonitor]_vars

-----------------------------------------------------------------------------
(* Properties of the file monitor, checked under SpecMonitor *)

\* the FileEvent handleCreate makes of a created file
Classified(created) == <<detectEventType(created[2]), created[1], created[2]>>

\* C23: every creation the monitor classifies goes into the event queue once,
\* behind the ones classified before it, and leaves it only from its head,
\* received by Run; the queue never holds more than EventsCap events; and
\* while it is full the monitor keeps the event it holds and takes no further
\* notification.
C23_ClassifiedEventsDeliveredOnceInOrder ==
    /\ [](Len(events) <= EventsCap)
    /\ [][Len(fsEvents') < Len(fsEvents) =>
             /\ watch.pc = "select"
             /\ fsEvents' = Tail(fsEvents)
             /\ events' = events
             /\ IF detectEventType(Head(fsEvents)[2]) = ""
                THEN watch' = watch
                ELSE watch'.pc = "send" /\ watch'.event = Classified(Head(fsEvents))]_vars
    /\ [][watch.pc = "send" =>
             \/ /\ watch' = watch
                /\ Len(fsEvents') >= Len(fsEvents)
                /\ events' = events \/ (events # <<>> /\ events' = Tail(events))
             \/ /\ Len(events) < EventsCap
                /\ events' = Append(events, watch.event)
                /\ watch'.pc = "select"
                /\ fsEvents' = fsEvents]_vars
    /\ [][events' # events =>
             \/ watch.pc = "send" /\ events' = Append(events, watch.event)
             \/ /\ pc = "loop"
                /\ events # <<>>
                /\ events' = Tail(events)
                /\ handled' = handled + 1]_vars

\* the queue is full, the monitor holds a classified event it cannot send,
\* a further creation waits in the watcher, and Run has received events
C23_Witness ==
    /\ Len(events) = EventsCap
    /\ watch.pc = "send"
    /\ fsEvents # <<>>
    /\ handled > 0

\* SpecMonitor with the scheduling of the goroutines: watch takes a step it
\* can take (a notification, a send that has room, the done case), and Run
\* takes the done case of its select once done is closed
SpecMonitorLive ==
    /\ SpecMonitor
    /\ WF_vars(WatchTake)
    /\ WF_vars(WatchSend)
    /\ WF_vars(WatchSendError)
    /\ WF_vars(WatchReturns)
    /\ WF_vars(HandleEvent)
    /\ WF_vars(RunReceivesError)
    /\ WF_vars(RunReturns)

\* C24 as claimed: once Stop has closed done, the watch goroutine returns,
\* wherever it was: at its select, or sending an event or an error.
C24_WatchTerminatesAfterStop == doneClosed ~> watch.pc = "returned"

-----------------------------------------------------------------------------
(* More properties of InterpolatePrompt, checked under SpecInterp *)

\* C40 as claimed: the text InterpolatePrompt returns is the one it returns
\* for every order in which the range may visit the entries of the outputs
\* map, outputs that hold a placeholder of another id of the map included.
C40_InterpolateIndependentOfMapOrder ==
    ret.op = "InterpolatePrompt" =>
        \A order \in Orders(DOMAIN outputsCache) :
            InterpolatePrompt(wf.Tasks[1].Prompt, outputsCache, order) = ret.val

-----------------------------------------------------------------------------
(* The path of a reported cycle, checked under SpecValidate *)

\* the task of the workflow with this id
TaskOf(workflow, id) ==
    workflow.Tasks[CHOOSE i \in 1..Len(workflow.Tasks) : workflow.Tasks[i].ID = id]

\* C38 as claimed: the path of a circular-dependency error lists task ids of
\* which each depends on the next, and it begins and ends with the same id,
\* the revisited one.
C38_ReportedPathIsTheCycle ==
    (vpc = "validated" /\ result.kind = "circular") =>
        /\ Len(result.cycle) >= 2
        /\ \A i \in 1..(Len(result.cycle) - 1) :
              result.cycle[i + 1] \in Range(TaskOf(wf, result.cycle[i]).DependsOn)
        /\ result.cycle[1] = result.cycle[Len(result.cycle)]

-----------------------------------------------------------------------------
(* handleCreate on paths, checked under SpecClassify: extractAgentID and    *)
(* detectEventType as they work on the path fsnotify reports. A path is     *)
(* [abs, comps]: whether it starts with a slash, and its components; a      *)
(* component is the sequence of the pieces of its name ("q-", "1", ".txt"). *)

\* filepath.Join(dir, names...)
Join(dir, comps) == [abs |-> dir.abs, comps |-> dir.comps \o comps]

\* filepath.Base(path)
Base(path) == path.comps[Len(path.comps)]

\* strings.HasPrefix(filename, prefix) && strings.HasSuffix(filename, suffix)
HasPrefixAndSuffix(filename, prefix, suffix) ==
    /\ Len(filename) >= 2
    /\ filename[1] = prefix
    /\ filename[Len(filename)] = suffix

\* strings.Contains(path, "/" + dir + "/"): a component named dir with a
\* slash before it and a slash after it
ContainsDir(path, dir) ==
    \E i \in 1..(Len(path.comps) - 1) :
        /\ path.comps[i] = <<dir>>
        /\ i > 1 \/ path.abs

\* the regular expression /agents/agent-([^/]+)/ matches at component i
AgentDirAt(path, i) ==
    /\ i + 1 < Len(path.comps)
    /\ path.comps[i] = <<"agents">>
    /\ i > 1 \/ path.abs
    /\ Len(path.comps[i + 1]) >= 2
    /\ path.comps[i + 1][1] = "agent-"

\* extractAgentID: the group of the leftmost match, <<>> for no match
extractAgentID(path) ==
    IF \E i \in 1..Len(path.comps) : AgentDirAt(path, i)
    THEN LET i == CHOOSE k \in 1..Len(path.comps) :
                      /\ AgentDirAt(path, k)
                      /\ \A j \in 1..(k - 1) : ~AgentDirAt(path, j)
         IN  Tail(path.comps[i + 1])
    ELSE <<>>

\* detectEventType on the whole path
detectEventTypeOfPath(path) ==
    LET filename == Base(path)
    IN  CASE HasPrefixAndSuffix(filename, "q-", ".txt") ->
                 IF ContainsDir(path, "questions") THEN "question_asked"
                 ELSE IF ContainsDir(path, "followup") THEN "followup_asked"
                 ELSE ""
          [] HasPrefixAndSuffix(filename, "a-", ".txt") ->
                 IF ContainsDir(path, "questions") THEN "question_answered"
                 ELSE IF ContainsDir(path, "followup") THEN "followup_answered"
                 ELSE ""
          [] filename = <<"COMPLETE">> -> "task_completed"
          [] filename = <<"status", ".txt">> -> "agent_status_update"
          [] HasPrefixAndSuffix(filename, "msg-", ".json") ->
                 IF ContainsDir(path, "messages") THEN "file_operation_request" ELSE ""
          [] OTHER -> ""

\* handleCreate: a directory is added to the watcher; a file with an agent id
\* and an event type is sent as a FileEvent; anything else does nothing
handleCreatePath(path, isDir) ==
    IF isDir THEN [added |-> <<path>>, sent |-> <<>>]
    ELSE IF extractAgentID(path) = <<>> THEN [added |-> <<>>, sent |-> <<>>]
    ELSE IF detectEventTypeOfPath(path) = "" THEN [added |-> <<>>, sent |-> <<>>]
    ELSE [added |-> <<>>,
          sent |-> <<[Type |-> detectEventTypeOfPath(path),
                      AgentID |-> extractAgentID(path), FilePath |-> path]>>]

\* the session directories: $HOME/.claude-swarm/<session> of the init
\* command, and filepath.Dir(workflowPath) of the run command for the
\* workflow files /work/questions/workflow.yaml, workflow.yaml and
\* proj/workflow.yaml
SwarmDirs ==
    { SessionDir,
      [abs |-> TRUE, comps |-> << <<"work">>, <<"questions">> >>],
      [abs |-> FALSE, comps |-> <<>>],
      [abs |-> FALSE, comps |-> << <<"proj">> >>] }

\* the files a worker directory gets, by their path below it
WorkerFiles ==
    { << <<"questions">>, <<"q-", "1", ".txt">> >>,
      << <<"questions">>, <<"q-", "12", ".txt">> >>,
      << <<"questions">>, <<"a-", "1", ".txt">> >>,
      << <<"followup">>, <<"q-", "1", ".txt">> >>,
      << <<"followup">>, <<"a-", "1", ".txt">> >>,
      << <<"questions">>, <<"notes", ".txt">> >>,
      << <<"questions">>, <<"q-", "1", ".md">> >>,
      << <<"q-", "1", ".txt">> >>,
      << <<"a-", "1", ".txt">> >>,
      << <<"COMPLETE">> >>,
      << <<"status", ".txt">> >>,
      << <<"output", ".txt">> >>,
      << <<"context", ".txt">> >>,
      << <<"messages">>, <<"msg-", "1", ".json">> >>,
      << <<"responses">>, <<"msg-", "1", "-result", ".json">> >>,
      << <<"msg-", "1", ".json">> >> }

\* the directories created below a worker directory
WorkerDirs ==
    { << <<"questions">> >>, << <<"followup">> >>, << <<"messages">> >>,
      << <<"responses">> >>, << <<"COMPLETE">> >> }

\* what is created below the session directory: files and directories of
\* the workers of tasks A and B, the worker directories themselves, and files
\* outside every worker directory
CreatedBelowSession ==
    {[rel |-> << <<"agents">>, <<"agent-", id>> >> \o f, isDir |-> FALSE] :
        id \in {"A", "B"}, f \in WorkerFiles}
    \cup {[rel |-> << <<"agents">>, <<"agent-", id>> >> \o d, isDir |-> TRUE] :
             id \in {"A", "B"}, d \in WorkerDirs}
    \cup {[rel |-> << <<"agents">>, <<"agent-", id>> >>, isDir |-> TRUE] : id \in {"A", "B"}}
    \cup {[rel |-> << <<"state", ".json">> >>, isDir |-> FALSE],
          [rel |-> << <<"agents">>, <<"COMPLETE">> >>, isDir |-> FALSE],
          [rel |-> << <<"questions">>, <<"q-", "1", ".txt">> >>, isDir |-> FALSE]}

InitClassify ==
    /\ wf = GraphWorkflow(2, <<{}, {}>>, FALSE)
    /\ vpc = "validated"
    /\ result = NoError
    /\ StoreIdle
    /\ pc = "loop"
    /\ doneClosed = FALSE
    /\ swarmDir \in SwarmDirs
    /\ \E c \in CreatedBelowSession :
          fsEvents = <<[dir |-> swarmDir, rel |-> c.rel, isDir |-> c.isDir]>>
    /\ events = <<>>
    /\ files = <<>>
    /\ stateFile = NoFile
    /\ handled = 0
    /\ serverCalls = 0
    /\ ConcIdle

\* the select of watch takes the creation: handleCreate on its path
HandleCreate ==
    /\ watch.pc = "select"
    /\ fsEvents # <<>>
    /\ LET c == Head(fsEvents)
           r == handleCreatePath(Join(c.dir, c.rel), c.isDir)
       IN  /\ events' = events \o r.sent
           /\ ret' = Returned("handleCreate", FALSE, [created |-> c, added |-> r.added])
    /\ fsEvents' = Tail(fsEvents)
    /\ UNCHANGED <<monVars, execVars, concVars, wf, vpc, result, storeVars, pc, doneClosed,
                   files, stateFile, handled, serverCalls>>

NextClassify == HandleCreate

SpecClassify == InitClassify /\ [][NextClassify]_vars

-----------------------------------------------------------------------------
(* Properties of the classification, checked under SpecClassify *)

\* rel, a path below the session directory, is a file below the directory
\* agents/agent-<task id>/ of a worker
BelowAgentDir(rel) ==
    /\ Len(rel) >= 3
    /\ rel[1] = <<"agents">>
    /\ Len(rel[2]) >= 2
    /\ rel[2][1] = "agent-"

\* rel lies under the directory dir of its worker directory
Under(rel, dir) == \E i \in 3..(Len(rel) - 1) : rel[i] = <<dir>>

\* the event type the path convention gives the file at rel ("" for none)
TypeByConvention(rel) ==
    LET name == rel[Len(rel)]
        q == Len(name) >= 2 /\ name[1] = "q-" /\ name[Len(name)] = ".txt"
        a == Len(name) >= 2 /\ name[1] = "a-" /\ name[Len(name)] = ".txt"
        msg == Len(name) >= 2 /\ name[1] = "msg-" /\ name[Len(name)] = ".json"
    IN  CASE q /\ Under(rel, "questions") -> "question_asked"
          [] q /\ Under(rel, "followup") -> "followup_asked"
          [] a /\ Under(rel, "questions") -> "question_answered"
          [] a /\ Under(rel, "followup") -> "followup_answered"
          [] name = <<"COMPLETE">> -> "task_completed"
          [] name = <<"status", ".txt">> -> "agent_status_update"
          [] msg /\ Under(rel, "messages") -> "file_operation_request"
          [] OTHER -> ""

\* C37 as claimed: a created directory is added to the watch set and yields
\* no event; a created file yields an event exactly if it lies below a worker
\* directory agents/agent-<task id>/ of the session directory and its name
\* and directory follow the convention, and the event carries that task id,
\* the type of the convention and the path; nothing else yields an event.
C37_CreationClassifiedByPath ==
    ret.op = "handleCreate" =>
        LET c == ret.val.created
            path == Join(c.dir, c.rel)
        IN  IF c.isDir
            THEN ret.val.added = <<path>> /\ events = <<>>
            ELSE /\ ret.val.added = <<>>
                 /\ IF BelowAgentDir(c.rel) /\ TypeByConvention(c.rel) # ""
                    THEN events = <<[Type |-> TypeByConvention(c.rel),
                                     AgentID |-> Tail(c.rel[2]), FilePath |-> path]>>
                    ELSE events = <<>>

-----------------------------------------------------------------------------
(* SpecContext: the context file of a task that has dependencies. The      *)
(* workflow is A, B and a task C that depends on them; A and B have been    *)
(* spawned and completed with the outputs their workers wrote, and the next *)
(* tick spawns C: spawnAgent renders context.txt with generateAgentContext. *)

\* the prompts of the dependent task
DependentPrompts ==
    {<<"Use">> \o Placeholder("A") \o <<"and">> \o Placeholder("B"),
     Placeholder("B") \o Placeholder("A"),
     <<"Use">> \o Placeholder("A"),
     <<"Go">>}

\* what the worker of a task wrote to output.txt: plain text, or text that
\* reads like the placeholder of the other task
OutputsOfWorker(taskID) ==
    IF taskID = "A" THEN {<<"X">>, Placeholder("B")} ELSE {<<"Y">>, Placeholder("A")}

\* the Store after spawning the tasks of ids and completing them in that order
RECURSIVE CompletedInOrder(_, _, _)
CompletedInOrder(ids, outputs, k) ==
    IF k = 0 THEN NewSwarmState
    ELSE CompleteTask(AddAgent(CompletedInOrder(ids, outputs, k - 1), ids[k]).st,
                      ids[k], outputs[ids[k]]).st

InitContext ==
    /\ \E prompt \in DependentPrompts, dependsOn \in {<<"A", "B">>, <<"B", "A">>, <<"A">>} :
          wf = [Name |-> "w",
                Tasks |-> <<NewTask("A", <<"p">>, <<>>), NewTask("B", <<"p">>, <<>>),
                            NewTask("C", prompt, dependsOn)>>]
    /\ vpc = "validated"
    /\ result = NoError
    /\ \E ids \in Orders({"A", "B"}), oa \in OutputsOfWorker("A"), ob \in OutputsOfWorker("B") :
          LET st == CompletedInOrder(ids, [id \in {"A", "B"} |-> IF id = "A" THEN oa ELSE ob], 2)
          IN  /\ Agents = st.Agents
              /\ CompletedTasks = st.CompletedTasks
              /\ Events = st.Events
              /\ CompletedAt = st.CompletedAt
              /\ outputsCache = st.outputsCache
              /\ files = [id \in {"A", "B"} |->
                             [name \in {"context.txt", "output.txt", "status.txt", "COMPLETE"} |->
                                 CASE name = "context.txt" -> <<"p">>
                                   [] name = "output.txt" -> st.outputsCache[id]
                                   [] name = "status.txt" -> "completed"
                                   [] OTHER -> ""]]
    /\ ret = Returned("none", FALSE, <<>>)
    /\ pc = "loop"
    /\ doneClosed = FALSE
    /\ fsEvents = <<>>
    /\ events = <<>>
    /\ stateFile = NoFile
    /\ handled = 2
    /\ serverCalls = 0
    /\ ConcIdle
    /\ swarmDir = SessionDir

\* generateAgentContext: the task section of the context file, the prompt
\* interpolated with GetOutputs(), the range over the map taking any order
generateAgentContext(st, task, order) == InterpolatePrompt(task.Prompt, GetOutputs(st), order)

\* the ticker case of Run with a ready task that has dependencies:
\* spawnReadyAgents (spawnAgent writes the rendered context.txt, then
\* AddAgent), then Save, which may fail; the workflow is not complete
TickSpawnsDependent ==
    /\ pc = "loop"
    /\ GetReadyTasks(Store, wf) # <<>>
    /\ \E order \in Orders(DOMAIN GetOutputs(Store)), saved \in BOOLEAN :
          LET task == GetReadyTasks(Store, wf)[1]
              r == AddAgent(Store, task.ID)
          IN  /\ files' = WriteFile(files, task.ID, "context.txt",
                                    generateAgentContext(Store, task, order))
              /\ SetStore(r.st)
              /\ stateFile' = IF saved THEN CompleteFile(Snapshot(r.st)) ELSE stateFile
    /\ UNCHANGED <<monVars, execVars, concVars, wf, vpc, result, ret, pc, doneClosed, fsEvents,
                   events, handled, serverCalls>>

NextContext == TickSpawnsDependent

SpecContext == InitContext /\ [][NextContext]_vars

\* the outputs map restricted to the ids of D
OutputsOf(outputs, D) == [id \in D |-> outputs[id]]

\* C39 as claimed: when the engine spawns a task, every placeholder
\* {d.output} of a declared dependency d in the task's prompt is replaced by
\* the output recorded when d completed, and nothing else of the prompt is
\* changed by those replacements: the rendered instructions are the prompt
\* with the placeholders of the declared dependencies (and possibly of other
\* completed tasks) substituted once.
C39_SpawnedContextResolvesDependencies ==
    FileExists(files, "C", "context.txt") =>
        LET task == TaskOf(wf, "C")
        IN  /\ Range(task.DependsOn) \subseteq DOMAIN outputsCache
            /\ \E D \in SUBSET DOMAIN outputsCache :
                  /\ Range(task.DependsOn) \subseteq D
                  /\ files["C"]["context.txt"]
                        = SubstitutedFrom(task.Prompt, OutputsOf(outputsCache, D), 1)

-----------------------------------------------------------------------------
(* SpecQuestion: the engine with workers that ask questions. A path is the  *)
(* sequence of the pieces of its text, cut so that every "q-" and "a-" in   *)
(* it is a piece of its own.                                                 *)

\* /api/question requests served in one run
MaxServerQuestions == 1

\* the pieces of a task id
IdPieces(taskID) ==
    IF taskID = "faq-x" THEN <<"fa", "q-", "x">> ELSE <<taskID>>

\* extractQuestionNumber: the number between "-" and ".txt" of the file name
extractQuestionNumber(name) ==
    CHOOSE n \in 1..MaxQuestions : name \in {QuestionFile(n), AnswerFile(n)}

\* filepath.Join(swarmDir, "agents", "agent-"+taskID, name) for a question
\* or answer file, below the session directory
PathPieces(taskID, name) ==
    <<"agents/agent-">> \o IdPieces(taskID)
        \o <<"/questions/", IF name \in QuestionFiles THEN "q-" ELSE "a-",
             ToString(extractQuestionNumber(name)), ".txt">>

\* the worker directory and file a path names, among the directories dirs
FilesAt(path, dirs) ==
    {c \in dirs \X (QuestionFiles \cup AnswerFiles) : PathPieces(c[1], c[2]) = path}

\* two independent tasks: plain ids, and an id that holds "q-"
QuestionWorkflows ==
    {[Name |-> "wf", Tasks |-> <<NewTask(ids[1], "p", <<>>), NewTask(ids[2], "p", <<>>)>>] :
        ids \in {<<"A", "B">>, <<"A", "faq-x">>}}

\* the text of the n-th question of a worker, and of a question posted to
\* the network adapter
QuestionText(taskID, n) == "question " \o ToString(n) \o " of " \o taskID
PostedQuestion == "posted question"

\* formulateAnswer: "Task not found", "Agent not found", or the text made of
\* the agent id, the question and len(agent.Questions)
formulateAnswer(st, workflow, agentID, question) ==
    IF agentID \notin TaskIDsOf(workflow) THEN "Task not found"
    ELSE IF agentID \notin DOMAIN st.Agents THEN "Agent not found"
    ELSE "answer for " \o agentID \o " to: " \o question \o ", previous questions: "
            \o ToString(Len(st.Agents[agentID].Questions))

\* handleQuestionAsked: read the question, AddQuestion (result ignored),
\* formulateAnswer, os.WriteFile to strings.Replace(FilePath, "q-", "a-", 1),
\* which fails without the directory (or when the write fails), then
\* AnswerQuestion with the number of the file name (result ignored). Returns
\* the Store, the files, the files created and the error.
handleQuestionAsked(st, fs, workflow, agentID, name, writeFails) ==
    IF ~FileExists(fs, agentID, name)
    THEN [st |-> st, files |-> fs, created |-> <<>>, err |-> TRUE]
    ELSE LET question == fs[agentID][name]
             qNum == extractQuestionNumber(name)
             st1 == AddQuestion(st, agentID, question).st
             answer == formulateAnswer(st1, workflow, agentID, question)
             answerFile == Replace(PathPieces(agentID, name), <<"q-">>, <<"a-">>)
             at == FilesAt(answerFile, DOMAIN fs)
         IN  IF at = {} \/ writeFails
             THEN [st |-> st1, files |-> fs, created |-> <<>>, err |-> TRUE]
             ELSE LET c == CHOOSE x \in at : TRUE
                  IN  [st |-> AnswerQuestion(st1, agentID, qNum, answer).st,
                       files |-> WriteFile(fs, c[1], c[2], answer),
                       created |-> IF FileExists(fs, c[1], c[2]) THEN <<>>
                                   ELSE <<Created(c[1], c[2])>>,
                       err |-> FALSE]

InitQuestion ==
    /\ wf \in QuestionWorkflows
    /\ vpc = "validated"
    /\ result = NoError
    /\ StoreIdle
    /\ pc = "start"
    /\ doneClosed = FALSE
    /\ fsEvents = <<>>
    /\ events = <<>>
    /\ files = <<>>
    /\ stateFile = NoFile
    /\ handled = 0
    /\ serverCalls = 0
    /\ ConcIdle
    /\ swarmDir = SessionDir

\* the ask command of a worker: the number is one more than the q-*.txt
\* files of its questions directory, the question is written to q-N.txt
WorkerAsks ==
    /\ \E t \in DOMAIN files :
          LET qNum == Cardinality(QuestionFiles \cap DOMAIN files[t]) + 1
          IN  /\ qNum <= MaxQuestions
              /\ ~FileExists(files, t, "COMPLETE")
              /\ files' = WriteFile(files, t, QuestionFile(qNum), QuestionText(t, qNum))
              /\ fsEvents' = Append(fsEvents, Created(t, QuestionFile(qNum)))
    /\ UNCHANGED <<monVars, execVars, concVars, wf, vpc, result, storeVars, ret, pc, doneClosed,
                   events, stateFile, handled, serverCalls>>

\* the select of Run takes the events case with a question: handleEvent calls
\* handleQuestionAsked, and Run prints the error it returns; the file system
\* may refuse the write of the answer
HandleQuestionAsked ==
    /\ pc = "loop"
    /\ events # <<>>
    /\ Head(events)[1] = "question_asked"
    /\ \E writeFails \in BOOLEAN :
          LET r == handleQuestionAsked(Store, files, wf, Head(events)[2], Head(events)[3],
                                       writeFails)
          IN  /\ SetStore(r.st)
              /\ files' = r.files
              /\ fsEvents' = fsEvents \o r.created
              /\ ret' = Returned("handleQuestionAsked", r.err,
                                  [event |-> Head(events), refused |-> writeFails])
    /\ events' = Tail(events)
    /\ handled' = handled + 1
    /\ UNCHANGED <<monVars, execVars, concVars, wf, vpc, result, pc, doneClosed, stateFile,
                   serverCalls>>

\* Server.handleQuestion: AddQuestion with the agent id and question of the
\* request; the answer it returns is a placeholder text
ServerQuestion ==
    /\ serverCalls < MaxServerQuestions
    /\ \E t \in TaskIDsOf(wf) :
          LET a == AddQuestion(Store, t, PostedQuestion)
          IN  SetStore(a.st) /\ ret' = Returned("handleQuestion", a.err, a.val)
    /\ serverCalls' = serverCalls + 1
    /\ UNCHANGED <<monVars, execVars, concVars, wf, vpc, result, pc, doneClosed, fsEvents, events,
                   files, stateFile, handled>>

NextQuestion ==
    \/ Startup
    \/ WorkerAsks
    \/ MonitorStep
    \/ HandleQuestionAsked
    \/ HandleEvent
    \/ ServerQuestion

SpecQuestion == InitQuestion /\ [][NextQuestion]_vars

\* the step handles the question event of file q-n.txt of worker t
QuestionHandled(t, n) ==
    /\ ret'.op = "handleQuestionAsked"
    /\ handled' = handled + 1
    /\ Head(events) = <<"question_asked", t, QuestionFile(n)>>

\* C33 as claimed: for a question-asked event on questions/q-N.txt of a
\* worker directory the engine writes its answer to questions/a-N.txt of the
\* same directory, the file the asking worker polls, for every task id and
\* every N (a write the file system refuses aside).
C33_AnswerWrittenBesideQuestion ==
    [][\A t \in TaskIDsOf(wf), n \in 1..MaxQuestions :
          (QuestionHandled(t, n) /\ FileExists(files, t, QuestionFile(n))) =>
              \/ /\ FileExists(files', t, AnswerFile(n))
                 /\ files'[t][AnswerFile(n)]
                       = formulateAnswer(Store', wf, t, files[t][QuestionFile(n)])
                 /\ \A d \in DOMAIN files :
                       \A name \in DOMAIN files[d] :
                          <<d, name>> # <<t, AnswerFile(n)>> => files'[d][name] = files[d][name]
              \/ ret'.err /\ ret'.val.refused /\ files' = files]_vars

\* C34 as claimed: the questions of an agent carry the ids 1, 2, 3, ... in
\* the order they were recorded, and when the engine has handled the question
\* of q-N.txt the Store entry that holds the text of that question carries
\* the answer written for it, the answers of the other entries being as they
\* were; also after questions were posted to the network adapter.
C34_AnswerStoredWithItsQuestion ==
    [][\A t \in TaskIDsOf(wf), n \in 1..MaxQuestions :
          (QuestionHandled(t, n) /\ ~ret'.err /\ t \in DOMAIN Agents) =>
              LET before == Agents[t].Questions
                  after == Agents'[t].Questions
                  text == files[t][QuestionFile(n)]
              IN  /\ \A i \in DOMAIN after : after[i].ID = i
                  /\ Len(after) = Len(before) + 1
                  /\ after[Len(after)].Text = text
                  /\ after[Len(after)].Answer = formulateAnswer(Store', wf, t, text)
                  /\ \A j \in DOMAIN before : after[j] = before[j]]_vars

-----------------------------------------------------------------------------
(* SpecLoop: the main loop of Run with all four cases of its select, for a  *)
(* workflow of one task whose worker asks questions and completes, a        *)
(* watcher that reports errors, and Stop.                                    *)

InitLoop ==
    /\ wf \in {[Name |-> "wf", Tasks |-> <<NewTask(id, "p", <<>>)>>] : id \in {"A", "faq-x"}}
    /\ vpc = "validated"
    /\ result = NoError
    /\ StoreIdle
    /\ pc = "start"
    /\ doneClosed = FALSE
    /\ fsEvents = <<>>
    /\ events = <<>>
    /\ files = <<>>
    /\ stateFile = NoFile
    /\ handled = 0
    /\ serverCalls = 0
    /\ ConcIdle
    /\ swarmDir = SessionDir

NextLoop ==
    \/ Startup
    \/ WorkerAsks
    \/ WorkerComplete
    \/ WatchTake
    \/ WatchSend
    \/ WatchTakeError
    \/ WatchSendError
    \/ WatchReturns
    \/ HandleQuestionAsked
    \/ HandleEvent
    \/ RunReceivesError
    \/ Tick
    \/ RunReturns
    \/ Stop

SpecLoop == InitLoop /\ [][NextLoop]_vars

\* the step is Run handling a question whose handler returns an error
QuestionHandlerFails ==
    /\ handled' = handled + 1
    /\ events # <<>>
    /\ Head(events)[1] = "question_asked"
    /\ ret'.err

\* C31 as claimed: the loop of Run is left only when the workflow is complete
\* or Stop was called; a step in which the handler of an event returns an
\* error, in which Run receives a monitor error, or in which the tick's spawn
\* fails, leaves Run in its loop and the Store as it was.
C31_ErrorsLeaveLoopAndStore ==
    /\ [][(pc = "loop" /\ pc' # "loop") => (doneClosed \/ IsComplete(Store', wf))]_vars
    /\ [][QuestionHandlerFails => (pc' = "loop" /\ UNCHANGED storeVars)]_vars
    /\ [][(pc = "loop" /\ monErrors # <<>> /\ monErrors' = Tail(monErrors))
             => (pc' = "loop" /\ UNCHANGED storeVars)]_vars
    /\ [][(TickStep /\ ReadyIds(Store, wf) # {} /\ DOMAIN Agents' = DOMAIN Agents)
             => (pc' = "loop" /\ UNCHANGED storeVars)]_vars

-----------------------------------------------------------------------------
(* SpecSpawn: the engine with spawns that fail in the write of context.txt. *)
(* os.WriteFile creates (or truncates) the file and then writes its data; a *)
(* write that fails after the creation leaves the file empty.               *)

\* the files after the context writes of the tasks of partial have failed
\* behind the creation of the file
LeftEmpty(fs, partial) ==
    [t \in DOMAIN fs \cup partial |->
        IF t \in partial
        THEN MapPut(IF t \in DOMAIN fs THEN fs[t] ELSE <<>>, "context.txt", "")
        ELSE fs[t]]

\* spawnReadyAgents in which the spawns of the tasks of failed fail, those of
\* partial in os.WriteFile(contextFile) behind the creation of the file, the
\* others before it
spawnAgainWriteFailing(st, fs, workflow, failed, partial) ==
    LET r == spawnReadyAgents(st, fs, workflow, failed)
    IN  [st |-> r.st, files |-> LeftEmpty(r.files, partial \cap failed)]
spawnReadyAgentsWriteFailing(st, fs, workflow, failed, partial) ==
    LET r == spawnReadyAgents(st, fs, workflow, failed)
    IN  [st |-> r.st,
         files |-> LeftEmpty(r.files, partial \cap failed \cap ReadyIds(st, workflow))]

\* the ticker case of Run in which spawns fail in the write of context.txt:
\* spawnReadyAgents, Save (which may fail), and on IsComplete MarkComplete and
\* the send on done
TickWriteFails ==
    /\ pc = "loop"
    /\ \E failed \in SUBSET TaskIDsOf(wf), partial \in SUBSET TaskIDsOf(wf), saved \in BOOLEAN :
          LET r == spawnReadyAgentsWriteFailing(Store, files, wf, failed, partial)
              complete == IsComplete(r.st, wf)
              st2 == IF complete THEN MarkComplete(r.st) ELSE r.st
          IN  /\ partial \subseteq failed
              /\ partial # {}
              /\ SetStore(st2)
              /\ files' = r.files
              /\ stateFile' = IF saved THEN CompleteFile(Snapshot(r.st)) ELSE stateFile
              /\ pc' = IF ~complete THEN "loop"
                       ELSE IF doneClosed THEN "panicked" ELSE "blocked_send"
    /\ UNCHANGED <<monVars, execVars, concVars, wf, vpc, result, ret, doneClosed, fsEvents, events,
                   handled, serverCalls>>

NextSpawn ==
    \/ Startup
    \/ WorkerComplete
    \/ MonitorStep
    \/ HandleEvent
    \/ Tick
    \/ TickWriteFails

SpecSpawn == InitEngine /\ [][NextSpawn]_vars

\* the number of task_started entries of a task in the event log: the
\* AddAgent calls that succeeded for it, each followed by its spawn directive
StartedCount(t) == Cardinality({i \in 1..Len(Events) : Events[i] = <<"task_started", t>>})

\* C32 as claimed: for each task at most one AgentState is created and at
\* most one spawn directive is emitted, and context.txt, once it exists, is
\* never written again, whatever fails in a spawn.
C32_ContextWrittenOnce ==
    /\ [](\A t \in TaskIDsOf(wf) : StartedCount(t) <= 1)
    /\ [][\A t \in TaskIDsOf(wf) :
             FileExists(files, t, "context.txt") =>
                 files'[t]["context.txt"] = files[t]["context.txt"]]_vars

\* C32, amended: for each task at most one AgentState is created and at most
\* one spawn directive is emitted, and context.txt is written completely at
\* most once: from the spawn that created the AgentState on, the file is
\* never written again. (A spawn whose write of context.txt fails may leave
\* the file empty; the retry writes it, before any directive.)
C32_SpawnedOnceContextKept ==
    /\ [](\A t \in TaskIDsOf(wf) : StartedCount(t) <= 1)
    /\ [](\A t \in DOMAIN Agents : FileExists(files, t, "context.txt")
                                     /\ files[t]["context.txt"] = "context")
    /\ [][\A t \in DOMAIN Agents :
             /\ t \in DOMAIN Agents'
             /\ files'[t]["context.txt"] = files[t]["context.txt"]]_vars

\* a task was spawned and has completed, its dependent has been spawned by a
\* retry after a failed write, and another spawn has just left an empty file
C32_Witness ==
    /\ CompletedTasks # <<>>
    /\ \E t \in DOMAIN Agents : Range(TaskOf(wf, t).DependsOn) # {}
    /\ \E t \in TaskIDsOf(wf) \ DOMAIN Agents :
          FileExists(files, t, "context.txt") /\ files[t]["context.txt"] = ""

\* C36 as claimed: the message file the engine reads when it handles an
\* operation request holds the complete message the worker's command wrote,
\* and the response file a waiting command reads when its poll finds it holds
\* the complete Response the engine wrote, wherever the reader's step falls
\* between the two steps (create, then write) of the writer's os.WriteFile.
C36_ReadersSeeCompleteFiles ==
    /\ [][OperationRequestHandled =>
             files[Head(events)[2]][Head(events)[3]] \in
                 {<<msg>> : msg \in UNION {ExecRequests(id) : id \in Range(MsgIDs)}}]_vars
    /\ [][\A id \in DOMAIN requests :
             (requests[id] = "waiting" /\ requests'[id] \notin {"waiting", "timeout"}) =>
                 \E w \in Range(responses) :
                    /\ w.response.MessageID = id
                    /\ files[RequesterOf(id)][ResponseFile(id)] = <<w.response>>]_vars

-----------------------------------------------------------------------------
(* SpecProgress: the engine from startup to the completion of the workflow, *)
(* the monitor classifying each creation by the path fsnotify reports, which *)
(* begins with the session directory. SpecProgressLive adds the fairness of  *)
(* the goroutines and of the workers.                                        *)

\* the pieces of the name of a file of the complete command
NamePieces(name) ==
    CASE name = "COMPLETE" -> <<"COMPLETE">>
      [] name = "status.txt" -> <<"status", ".txt">>
      [] name = "output.txt" -> <<"output", ".txt">>

\* the path fsnotify reports for a file created in a worker directory: the
\* watched directory, filepath.Join(swarmDir, "agents", "agent-"+taskID), and
\* the name
CreatedPath(dir, created) ==
    Join(dir, << <<"agents">>, <<"agent-", created[1]>>, NamePieces(created[2]) >>)

InitProgress ==
    /\ wf \in StoreWorkflows
    /\ \E order \in Orders(TaskIDsOf(wf)) : Validate(wf, order).kind = "ok"
    /\ vpc = "validated"
    /\ result = NoError
    /\ StoreIdle
    /\ pc = "start"
    /\ doneClosed = FALSE
    /\ fsEvents = <<>>
    /\ events = <<>>
    /\ files = <<>>
    /\ stateFile = NoFile
    /\ handled = 0
    /\ serverCalls = 0
    /\ ConcIdle
    /\ swarmDir \in SwarmDirs

\* FileMonitor.watch takes one creation and handleCreate works on its path:
\* extractAgentID, detectEventType, and the send of the FileEvent, which
\* blocks while the channel is full
MonitorPathStep ==
    /\ ~doneClosed
    /\ fsEvents # <<>>
    /\ LET created == Head(fsEvents)
           r == handleCreatePath(CreatedPath(swarmDir, created), FALSE)
       IN  IF r.sent = <<>>
           THEN events' = events
           ELSE /\ Len(events) < EventsCap
                /\ events' = Append(events, <<r.sent[1].Type, r.sent[1].AgentID[1], created[2]>>)
    /\ fsEvents' = Tail(fsEvents)
    /\ UNCHANGED <<monVars, execVars, concVars, wf, vpc, result, storeVars, ret, pc, doneClosed, files,
                   stateFile, handled, serverCalls>>

NextProgress ==
    \/ Startup
    \/ WorkerComplete
    \/ MonitorPathStep
    \/ HandleEvent
    \/ Tick

SpecProgress == InitProgress /\ [][NextProgress]_vars

\* every goroutine that can take a step takes one, every spawned worker runs
\* its complete command, and a tick's spawns do not fail for ever
SpecProgressLive ==
    /\ SpecProgress
    /\ WF_vars(Startup)
    /\ WF_vars(WorkerComplete)
    /\ WF_vars(MonitorPathStep)
    /\ WF_vars(HandleEvent)
    /\ WF_vars(Tick /\ AllReadySpawned(Store'))

\* C35 as claimed: when every spawned worker writes its output and its
\* COMPLETE marker and the monitor and the loop of Run are scheduled fairly,
\* every declared task is eventually spawned and in the completed list.
C35_EveryTaskSpawnedAndCompleted ==
    <>(\A t \in TaskIDsOf(wf) : t \in DOMAIN Agents /\ t \in Range(CompletedTasks))

====
